---- MODULE Spec2Model ----
(***************************************************************************)
(* Reconciliation core of the Nova intake bot:                             *)
(* GoogleSheetsClient.update_sheet_with_excel and the helpers it calls     *)
(* (ExcelValidator.validate_dataframe, DataProcessor.normalize_dataframe,  *)
(* _get_or_create_headers, _delete_rows_batch), run against a worksheet    *)
(* that is a sequence of rows of string cells, row 1 being the header.     *)
(* Every worksheet request is one step and may raise.                      *)
(***************************************************************************)
EXTENDS Integers, Sequences, FiniteSets, TLC

(***************************************************************************)
(* Bounds of the model.                                                    *)
(***************************************************************************)
\* calls of update_sheet_with_excel in one behaviour
MaxCalls == 2
\* worksheet requests that raise in one behaviour
MaxFail == 2
\* rows per batch request; the program uses 1000 (sheets.py:15 and :136),
\* scaled down so that an upload of three rows needs two batches
BATCH_SIZE == 2

(***************************************************************************)
(* Generic helpers.                                                        *)
(***************************************************************************)
SeqToSet(s) == {s[k] : k \in 1..Len(s)}

Max(a, b) == IF a >= b THEN a ELSE b

Min(a, b) == IF a <= b THEN a ELSE b

\* list.index(x), 1-based; 0 stands for ValueError
Index(s, x) ==
  IF x \in SeqToSet(s) THEN CHOOSE k \in 1..Len(s) : s[k] = x /\ \A m \in 1..(k - 1) : s[m] # x
  ELSE 0

\* s[i:j] of Python, i and j 0-based, j exclusive and clipped to len(s)
Slice(s, i, j) == SubSeq(s, i + 1, Min(j, Len(s)))

\* sorted(S, reverse=True) for a set of integers
RECURSIVE SortedDesc(_)
SortedDesc(S) ==
  IF S = {} THEN <<>>
  ELSE LET m == CHOOSE a \in S : \A b \in S : b <= a
       IN <<m>> \o SortedDesc(S \ {m})

(***************************************************************************)
(* Uploaded datasets (the DataFrame pd.read_excel returns).  A cell is     *)
(* null (NaN), a string or a number; a row maps every column to a cell.    *)
(***************************************************************************)
Null == [t |-> "null", s |-> "", n |-> 0]

S(x) == [t |-> "str", s |-> x, n |-> 0]

N(k) == [t |-> "num", s |-> "", n |-> k]

Msg(kind, col, items) == [kind |-> kind, col |-> col, items |-> items]

SERVICE_COLUMNS ==
  <<"developer_telegram_id", "source_file_id", "creation_date", "last_update_date">>

REQUIRED_COLUMNS == <<"internal_id", "address", "price", "area_total">>

\* declared type of the columns the uploads of this model use
\* (REQUIRED_COLUMNS and OPTIONAL_COLUMNS of ExcelValidator)
ColumnType(col) ==
  CASE col \in {"internal_id", "address"} -> "str"
    [] col \in {"price", "area_total"} -> "float"
    [] col = "rooms" -> "int"
    [] OTHER -> "none"

\* str.strip() on the strings of this model: "x1 " is "x1" with a trailing blank
Strip(s) == IF s = "x1 " THEN "x1" ELSE s

\* the cells of column col, in row order
Column(df, col) == [k \in 1..Len(df.rows) |-> df.rows[k][col]]

IsNull(c) == c.t = "null"

HasCol(df, col) == col \in SeqToSet(df.cols)

\* df[df[col].isnull()].index.tolist(): the 0-based labels of the rows null in col
NullRows(df, col) ==
  LET idx == SelectSeq([k \in 1..Len(df.rows) |-> k], LAMBDA k : IsNull(df.rows[k][col]))
  IN [k \in 1..Len(idx) |-> ToString(idx[k] - 1)]

RECURSIVE ConcatAll(_)
ConcatAll(ss) == IF ss = <<>> THEN <<>> ELSE Head(ss) \o ConcatAll(Tail(ss))

(***************************************************************************)
(* ExcelValidator.  Messages are records (kind, column, listed items).     *)
(***************************************************************************)
\* _validate_required_fields: the errors it appends
RequiredFieldErrors(df) ==
  ConcatAll([k \in 1..Len(REQUIRED_COLUMNS) |->
    LET col == REQUIRED_COLUMNS[k] IN
    IF ~HasCol(df, col) THEN <<Msg("missing_column", col, <<>>)>>
    ELSE IF \E r \in 1..Len(df.rows) : IsNull(df.rows[r][col])
         THEN <<Msg("null_in_required", col, NullRows(df, col))>>
         ELSE <<>>])

\* the columns _validate_data_types visits, in dictionary order
TypedColumns == <<"internal_id", "address", "price", "area_total", "rooms">>

\* astype(dtype) raises on this column: a non-numeric string in a numeric column
CastFails(df, col) ==
  /\ ColumnType(col) \in {"float", "int"}
  /\ \E r \in 1..Len(df.rows) : df.rows[r][col].t = "str"

\* astype(dtype) of one non-null cell
Cast(c, dtype) ==
  IF c.t = "null" THEN c
  ELSE IF dtype = "str" THEN (IF c.t = "num" THEN S(ToString(c.n)) ELSE c)
  ELSE c

\* _validate_data_types: the errors it appends
DataTypeErrors(df) ==
  ConcatAll([k \in 1..Len(TypedColumns) |->
    LET col == TypedColumns[k] IN
    IF HasCol(df, col) /\ CastFails(df, col)
    THEN <<Msg("bad_type", col, <<ColumnType(col)>>)>>
    ELSE <<>>])

\* _validate_data_types: the frame after the in-place df.loc[mask, col] = ... casts
CastFrame(df) ==
  [df EXCEPT !.rows =
    [r \in 1..Len(df.rows) |->
      [col \in DOMAIN df.rows[r] |->
        IF ColumnType(col) # "none" /\ ~CastFails(df, col)
        THEN Cast(df.rows[r][col], ColumnType(col))
        ELSE df.rows[r][col]]]]

HasStr(df, col) == \E r \in 1..Len(df.rows) : df.rows[r][col].t = "str"

AnyNegative(df, col) ==
  \E r \in 1..Len(df.rows) : df.rows[r][col].t = "num" /\ df.rows[r][col].n < 0

\* price / area_total < bound for one row (NaN compares false, x / 0 is +-inf or NaN)
PpmBelow(p, a, bound) ==
  /\ p.t = "num" /\ a.t = "num"
  /\ IF a.n > 0 THEN p.n < bound * a.n
     ELSE IF a.n < 0 THEN p.n > bound * a.n
     ELSE p.n < 0

PpmAbove(p, a, bound) ==
  /\ p.t = "num" /\ a.t = "num"
  /\ IF a.n > 0 THEN p.n > bound * a.n
     ELSE IF a.n < 0 THEN p.n < bound * a.n
     ELSE p.n > 0

PPM_LOW == 50000

PPM_HIGH == 1000000

\* _validate_numeric_values raises TypeError: a string cell compared with a number
NumericRaises(df) ==
  \/ HasCol(df, "price") /\ HasStr(df, "price")
  \/ HasCol(df, "area_total") /\ HasStr(df, "area_total")

NumericErrors(df) ==
  (IF HasCol(df, "price") /\ AnyNegative(df, "price")
   THEN <<Msg("negative", "price", <<>>)>> ELSE <<>>)
  \o
  (IF HasCol(df, "area_total") /\ AnyNegative(df, "area_total")
   THEN <<Msg("negative", "area_total", <<>>)>> ELSE <<>>)

NumericWarnings(df) ==
  IF HasCol(df, "price") /\ HasCol(df, "area_total")
  THEN (IF \E r \in 1..Len(df.rows) :
              PpmBelow(df.rows[r]["price"], df.rows[r]["area_total"], PPM_LOW)
        THEN <<Msg("low_price_per_meter", "price", <<>>)>> ELSE <<>>)
       \o
       (IF \E r \in 1..Len(df.rows) :
              PpmAbove(df.rows[r]["price"], df.rows[r]["area_total"], PPM_HIGH)
        THEN <<Msg("high_price_per_meter", "price", <<>>)>> ELSE <<>>)
  ELSE <<>>

\* _validate_business_rules: the recommended-field warnings
BusinessWarnings(df) ==
  IF HasCol(df, "rooms") /\ \E r \in 1..Len(df.rows) : IsNull(df.rows[r]["rooms"])
  THEN <<Msg("recommended", "rooms", NullRows(df, "rooms"))>>
  ELSE <<>>

\* df['internal_id'].duplicated(): row r repeats the id of an earlier row
Duplicated(df, r) == \E q \in 1..(r - 1) : df.rows[q]["internal_id"] = df.rows[r]["internal_id"]

\* _validate_hierarchy: the errors it appends (the frame has an internal_id column)
HierarchyErrors(df) ==
  IF \E r \in 1..Len(df.rows) : Duplicated(df, r)
  THEN LET idx == SelectSeq([k \in 1..Len(df.rows) |-> k], LAMBDA k : Duplicated(df, k))
       IN <<Msg("duplicate_ids", "internal_id",
                [k \in 1..Len(idx) |-> df.rows[idx[k]]["internal_id"].s])>>
  ELSE <<>>

\* validate_dataframe in which a warning makes ok false as an error does
validate_dataframe_WarningsBlock(df) ==
  LET cast == CastFrame(df)
      errors == RequiredFieldErrors(df) \o DataTypeErrors(df) \o NumericErrors(cast)
                \o (IF HasCol(df, "internal_id") THEN HierarchyErrors(cast) ELSE <<>>)
      warnings == NumericWarnings(cast) \o BusinessWarnings(cast)
  IN [raised |-> NumericRaises(cast) \/ ~HasCol(df, "internal_id"),
      ok |-> errors \o warnings = <<>>,
      errors |-> errors,
      warnings |-> warnings,
      messages |-> errors \o warnings,
      df |-> cast]

\* validate_dataframe with ok computed from nothing: errors no longer block
validate_dataframe_NeverBlocks(df) ==
  LET cast == CastFrame(df)
      errors == RequiredFieldErrors(df) \o DataTypeErrors(df) \o NumericErrors(cast)
                \o (IF HasCol(df, "internal_id") THEN HierarchyErrors(cast) ELSE <<>>)
      warnings == NumericWarnings(cast) \o BusinessWarnings(cast)
  IN [raised |-> NumericRaises(cast) \/ ~HasCol(df, "internal_id"),
      ok |-> TRUE,
      errors |-> errors,
      warnings |-> warnings,
      messages |-> errors \o warnings,
      df |-> cast]

\* validate_dataframe: raised (an exception left it), else (ok, messages),
\* together with the frame as the in-place casts left it
validate_dataframe(df) ==
  LET cast == CastFrame(df)
      errors == RequiredFieldErrors(df) \o DataTypeErrors(df) \o NumericErrors(cast)
                \o (IF HasCol(df, "internal_id") THEN HierarchyErrors(cast) ELSE <<>>)
      warnings == NumericWarnings(cast) \o BusinessWarnings(cast)
  IN [raised |-> NumericRaises(cast) \/ ~HasCol(df, "internal_id"),
      ok |-> errors = <<>>,
      errors |-> errors,
      warnings |-> warnings,
      messages |-> errors \o warnings,
      df |-> cast]

(***************************************************************************)
(* DataProcessor.                                                          *)
(***************************************************************************)
\* a numeric column that holds a NaN is a float64 column
FloatColumn(df, col) ==
  /\ \E r \in 1..Len(df.rows) : df.rows[r][col].t = "null"
  /\ \A r \in 1..Len(df.rows) : df.rows[r][col].t \in {"null", "num"}

\* astype(str) followed by safe_str on the resulting string
CanonicalCell(df, col, c) ==
  CASE c.t = "null" -> "nan"
    [] c.t = "num" -> IF FloatColumn(df, col) THEN ToString(c.n) \o ".0" ELSE ToString(c.n)
    [] OTHER -> Strip(c.s)

\* DataFrame.insert raises ValueError when the column already exists
NormalizeRaises(df) == HasCol(df, "developer_telegram_id") \/ HasCol(df, "creation_date")

\* normalize_dataframe: columns and rows (column name -> string) of the result
normalize_dataframe(df, developer_id, now) ==
  [cols |-> <<"developer_telegram_id", "creation_date">> \o df.cols,
   rows |-> [r \in 1..Len(df.rows) |->
              [col \in DOMAIN df.rows[r] \cup {"developer_telegram_id", "creation_date"} |->
                 CASE col = "developer_telegram_id" -> developer_id
                   [] col = "creation_date" -> now
                   [] OTHER -> CanonicalCell(df, col, df.rows[r][col])]]]

(***************************************************************************)
(* The worksheet (gspread.Worksheet): a sequence of rows, row 1 the        *)
(* header.  A request that raises leaves the worksheet as it was.          *)
(***************************************************************************)
row_values(ws, k) == IF k <= Len(ws) THEN ws[k] ELSE <<>>

get_all_values(ws) == ws

append_row(ws, row) == Append(ws, row)

append_rows(ws, rows) == ws \o rows

clear(ws) == <<>>

\* delete_rows with the row index taken as 0-based: the row after row k goes
delete_rows_ZeroBased(ws, k) ==
  IF k + 1 \in 1..Len(ws) THEN SubSeq(ws, 1, k) \o SubSeq(ws, k + 2, Len(ws)) ELSE ws

\* delete_rows(k), k 1-based
delete_rows(ws, k) ==
  IF k \in 1..Len(ws) THEN SubSeq(ws, 1, k - 1) \o SubSeq(ws, k + 1, Len(ws)) ELSE ws

\* batch_update of one deleteDimension request per row of batch, applied in order
RECURSIVE batch_update(_, _)
batch_update(ws, batch) ==
  IF batch = <<>> THEN ws ELSE batch_update(delete_rows(ws, Head(batch)), Tail(batch))

(***************************************************************************)
(* Pure parts of GoogleSheetsClient.                                       *)
(***************************************************************************)
NotService(col) == col \notin SeqToSet(SERVICE_COLUMNS)

\* the service columns put after the other columns
WithServiceColumns_Last(cols) == SelectSeq(cols, NotService) \o SERVICE_COLUMNS

\* SERVICE_COLUMNS + [col for col in cols if col not in SERVICE_COLUMNS]
WithServiceColumns(cols) == SERVICE_COLUMNS \o SelectSeq(cols, NotService)

\* all(col in current_headers for col in self.SERVICE_COLUMNS)
ServiceColsPresent(headers) == SeqToSet(SERVICE_COLUMNS) \subseteq SeqToSet(headers)

\* rows_to_delete without the comparison of the owner
RowsToDelete_AnyOwner(all_values, header, developer_id, file_id) ==
  LET dev_id_col == Index(header, "developer_telegram_id")
      source_file_col == Index(header, "source_file_id")
  IN {idx \in 2..Len(all_values) :
        LET row == all_values[idx] IN
        /\ Len(row) >= Max(dev_id_col, source_file_col)
        /\ row[source_file_col] = file_id}

\* rows_to_delete that also marks the rows too short to hold both cells
RowsToDelete_ShortRows(all_values, header, developer_id, file_id) ==
  LET dev_id_col == Index(header, "developer_telegram_id")
      source_file_col == Index(header, "source_file_id")
  IN {idx \in 2..Len(all_values) :
        LET row == all_values[idx] IN
        \/ Len(row) < Max(dev_id_col, source_file_col)
        \/ /\ row[dev_id_col] = developer_id
           /\ row[source_file_col] = file_id}

\* rows_to_delete that marks nothing
RowsToDelete_None(all_values, header, developer_id, file_id) == {}

\* rows_to_delete without the comparison of the source file
RowsToDelete_AnyFile(all_values, header, developer_id, file_id) ==
  LET dev_id_col == Index(header, "developer_telegram_id")
      source_file_col == Index(header, "source_file_id")
  IN {idx \in 2..Len(all_values) :
        LET row == all_values[idx] IN
        /\ Len(row) >= Max(dev_id_col, source_file_col)
        /\ row[dev_id_col] = developer_id}

\* the row indices update_sheet_with_excel marks for deletion
RowsToDelete(all_values, header, developer_id, file_id) ==
  LET dev_id_col == Index(header, "developer_telegram_id")
      source_file_col == Index(header, "source_file_id")
  IN {idx \in 2..Len(all_values) :
        LET row == all_values[idx] IN
        /\ Len(row) >= Max(dev_id_col, source_file_col)
        /\ row[dev_id_col] = developer_id
        /\ row[source_file_col] = file_id}

\* the normalized frame with the source file left unset
ServiceStamped_NoFile(norm, developer_id, file_id, now) ==
  [r \in 1..Len(norm.rows) |->
    [col \in DOMAIN norm.rows[r] \cup SeqToSet(SERVICE_COLUMNS) |->
       CASE col = "source_file_id" -> ""
         [] col = "last_update_date" -> now
         [] col = "creation_date" -> now
         [] col = "developer_telegram_id" -> developer_id
         [] OTHER -> norm.rows[r][col]]]

\* the normalized frame after lines 298-302 set the four service columns
ServiceStamped(norm, developer_id, file_id, now) ==
  [r \in 1..Len(norm.rows) |->
    [col \in DOMAIN norm.rows[r] \cup SeqToSet(SERVICE_COLUMNS) |->
       CASE col = "source_file_id" -> file_id
         [] col = "last_update_date" -> now
         [] col = "creation_date" -> now
         [] col = "developer_telegram_id" -> developer_id
         [] OTHER -> norm.rows[r][col]]]

\* new_rows built from the last row of the frame to the first
NewRows_Reversed(dfrows, header) ==
  [r \in 1..Len(dfrows) |->
    [k \in 1..Len(header) |->
       IF header[k] \in DOMAIN dfrows[Len(dfrows) + 1 - r]
       THEN dfrows[Len(dfrows) + 1 - r][header[k]] ELSE ""]]

\* new_rows: one list per frame row, str(row.get(col, '')) for col in header
NewRows(dfrows, header) ==
  [r \in 1..Len(dfrows) |->
    [k \in 1..Len(header) |->
       IF header[k] \in DOMAIN dfrows[r] THEN dfrows[r][header[k]] ELSE ""]]

(***************************************************************************)
(* Inputs.                                                                 *)
(***************************************************************************)
\* the (developer_id, file_id) pairs a call may name: two files of one owner; the
\* worksheets the first call finds hold rows of a second owner
Callers == {<<"7", "f1">>, <<"7", "f2">>}

Listing(id, addr, price, area) ==
  [internal_id |-> S(id), address |-> S(addr), price |-> N(price), area_total |-> N(area)]

\* the uploads a call may name (excel_path); 0 stands for excel_path = None
Uploads ==
  << \* 1: three listings, no warning
     [cols |-> REQUIRED_COLUMNS,
      rows |-> <<Listing("x1", "a", 5000000, 50), Listing("x2", "a", 5000000, 50),
                 Listing("x3", "a", 5000000, 50)>>],
     \* 2: x1 gone, x2 changed, x4 new; a rooms column, cheap per square metre
     [cols |-> REQUIRED_COLUMNS \o <<"rooms">>,
      rows |-> <<Listing("x2", "b", 1000000, 50) @@ [rooms |-> Null],
                 Listing("x4", "b", 1000000, 50) @@ [rooms |-> N(2)]>>],
     \* 3: two ids that differ by a trailing blank
     [cols |-> REQUIRED_COLUMNS,
      rows |-> <<Listing("x1", "a", 5000000, 50), Listing("x1 ", "a", 5000000, 50)>>],
     \* 4: a repeated id
     [cols |-> REQUIRED_COLUMNS,
      rows |-> <<Listing("x1", "a", 5000000, 50), Listing("x1", "b", 5000000, 50)>>],
     \* 5: no internal_id column
     [cols |-> <<"address", "price", "area_total">>,
      rows |-> <<[address |-> S("a"), price |-> N(5000000), area_total |-> N(50)]>>],
     \* 6: the one listing of the end-to-end scenario
     [cols |-> REQUIRED_COLUMNS,
      rows |-> <<Listing("x1", "Addr", 1000000, 50)>>]
  >>

\* the upload of the end-to-end scenario
ScenarioUpload == Len(Uploads)

FullHeader == SERVICE_COLUMNS \o REQUIRED_COLUMNS

\* worksheets a first call may find
InitSheets ==
  { \* a new, empty worksheet
    <<>>,
    \* a header written before creation_date / last_update_date existed
    << <<"developer_telegram_id", "source_file_id", "internal_id", "address">>,
       <<"8", "f2", "x1", "a">>,
       <<"7", "f1", "x9", "a">> >>,
    \* a worksheet this program wrote, with one row cut short by hand
    << FullHeader,
       <<"8", "f2", "t0", "t0", "x1", "a", "5000000", "50">>,
       <<"7", "f1", "t0", "t0", "x9", "a", "5000000", "50">>,
       <<"7">>,
       <<"7", "f2", "t0", "t0", "x8", "a", "5000000", "50">> >> }

(***************************************************************************)
(* State.                                                                  *)
(***************************************************************************)
VARIABLES
  sheet,   \* the worksheet
  call,    \* per caller: the update_sheet_with_excel call in progress
  prev,    \* the call that returned last
  ncalls,  \* calls started
  nfail,   \* requests that raised
  dataset, \* the frame handed to the validator and the normalizer on their own
  outcome, \* what the function applied to dataset last gave
  feed,    \* the feed generated last from the rows read back
  outfile, \* the file at output_path of create_xml_feed
  metadata, \* FileManager.metadata: the status of the record of each file_id
  handler, \* the handler of the bot that is running, and context.user_data
  storage  \* the bucket of S3AsyncClient: the object under each key

vars == <<sheet, call, prev, ncalls, nfail, dataset, outcome, feed, outfile, metadata, handler,
          storage>>

\* nothing applied yet, nothing generated yet
NoOutcome == [op |-> "none"]

NoFeed == [op |-> "none"]

\* no frame handed over
NoDataset == [cols |-> <<>>, rows |-> <<>>]

\* no file at output_path
NoFile == [exists |-> FALSE]

\* the users of the bot: 7 and 8 upload files, 9 is an administrator
Users == {"7", "8", "9"}

ADMIN_IDS == {"9"}

\* the file ids of the uploads: one file name of user 7, one of user 8
Files == {"f1", "f3"}

\* FileMetadata.user_id of a record: the user whose upload made it; generate_file_id
\* hashes the user's id into the file_id, so the id tells the user
user_id(file_id) == IF file_id = "f3" THEN "8" ELSE "7"

\* generate_file_id for the documents of a user, one id per file name
generate_file_id(user) == {file_id \in Files : user_id(file_id) = user}

\* no record in FileManager.metadata
NoMetadata == [f \in Files |-> "none"]

\* the updates (callbacks and documents) the bot receives in one behaviour
MaxRuns == 4

\* no handler running, no updating_file_id in the user_data of any user, no update
\* received
IdleHandler ==
  [pc |-> "idle", file_id |-> "", user |-> "", updating |-> [u \in Users |-> ""], runs |-> 0]

\* the key handle_document uploads the feed of a file under
DocumentKey(file_id) == "feed_" \o file_id \o ".xml"

\* the key handle_file_update and handle_feed_selection upload it under, and the
\* key the deletion removes
FeedKey(file_id) == "feeds/feed_" \o file_id \o ".xml"

Keys == {DocumentKey(f) : f \in Files} \cup {FeedKey(f) : f \in Files}

NoObject == [exists |-> FALSE]

\* an empty bucket
NoStorage == [key \in Keys |-> NoObject]

Procs == {1, 2}

NoResult == [rows |-> 0, errors |-> <<>>]

IdleCall ==
  [pc |-> "idle", developer_id |-> "", file_id |-> "", excel |-> 0, now |-> "",
   header |-> <<>>, sorted_rows |-> <<>>, i |-> 0, j |-> 0, total_rows |-> 0,
   result |-> NoResult, raised |-> FALSE,
   ops |-> <<>>, removed |-> 0, pre |-> <<>>, concurrent |-> FALSE]

\* the clock: datetime.now().isoformat() of the n-th call
Now(n) == "t" \o ToString(n)

\* validator.validate_dataframe(df) of each upload, as line 283 obtains it
Validated == [excel \in 1..Len(Uploads) |-> validate_dataframe(Uploads[excel])]

\* the frame of call c as lines 280-302 leave it (validated, normalized, stamped)
Frame(c) ==
  LET v == Validated[c.excel]
  IN ServiceStamped(normalize_dataframe(v.df, c.developer_id, c.now),
                    c.developer_id, c.file_id, c.now)

Logged(c, op, ok) ==
  [c EXCEPT !.ops = Append(c.ops, <<op, IF ok THEN "ok" ELSE "fail">>)]

\* return rows, errors
Return(c, rows, errors) ==
  [c EXCEPT !.pc = "done", !.result = [rows |-> rows, errors |-> errors]]

\* the except clauses without the outermost try of update_sheet_with_excel
Handler_NoOuterTry(site) ==
  CASE site = "headers" -> "header_error"
    [] site = "update" -> "update_error"
    [] site = "delete_only" -> "delete_error"
    [] OTHER -> "propagate"

\* the except clause that catches an exception raised at a site of
\* update_sheet_with_excel, as the message it returns; "propagate" if none does
Handler(site) ==
  CASE site = "prepare" -> "general_error"
    [] site = "headers" -> "header_error"
    [] site = "update" -> "update_error"
    [] site = "delete_only" -> "delete_error"
    [] OTHER -> "propagate"

\* an exception raised at site
Raise(c, site) ==
  IF Handler(site) = "propagate" THEN [c EXCEPT !.pc = "done", !.raised = TRUE]
  ELSE Return(c, 0, <<Msg(Handler(site), "", <<>>)>>)

\* a request may raise while the budget of failures lasts
MayBe(ok) == ok \/ nfail < MaxFail

Count(ok) == nfail' = IF ok THEN nfail ELSE nfail + 1

Init ==
  /\ sheet \in InitSheets
  /\ call = [p \in Procs |-> IdleCall]
  /\ prev = IdleCall
  /\ ncalls = 0
  /\ nfail = 0
  /\ dataset = NoDataset
  /\ outcome = NoOutcome
  /\ feed = NoFeed
  /\ outfile = NoFile
  /\ metadata = NoMetadata
  /\ handler = IdleHandler
  /\ storage = NoStorage

(***************************************************************************)
(* update_sheet_with_excel, one step per worksheet request.                *)
(***************************************************************************)
Set(p, c) ==
  /\ call' = [call EXCEPT ![p] = c]
  /\ UNCHANGED <<dataset, outcome, feed, outfile, metadata, handler, storage>>

\* the call is made: update_sheet_with_excel(worksheet, excel_path, developer_id, file_id)
Begin(p, who, excel) ==
  /\ call[p].pc = "idle"
  /\ ncalls < MaxCalls
  /\ Set(p, [IdleCall EXCEPT !.pc = IF excel = 0 THEN "d_hdr" ELSE "prepare",
                             !.developer_id = who[1],
                             !.file_id = who[2],
                             !.excel = excel,
                             !.now = Now(ncalls + 1),
                             !.pre = sheet,
                             !.concurrent = \E q \in Procs \ {p} :
                                               call[q].pc \notin {"idle", "done"}])
  /\ ncalls' = ncalls + 1
  /\ UNCHANGED <<sheet, prev, nfail>>

\* a caller enters update_sheet_with_excel with an upload, or with excel_path = None
StartCall(p) ==
  \E who \in Callers, excel \in 0..(ScenarioUpload - 1) : Begin(p, who, excel)

\* lines 280-289: pd.read_excel, validate_dataframe, normalize_dataframe
Prepare(p) ==
  LET c == call[p]
      v == Validated[c.excel]
  IN /\ c.pc = "prepare"
     /\ \E ok \in BOOLEAN :
          /\ MayBe(ok)
          /\ Count(ok)
          /\ Set(p, LET d == Logged(c, "read_excel", ok)
                    IN IF ~ok \/ v.raised THEN Raise(d, "prepare")
                       ELSE IF ~v.ok THEN Return(d, 0, v.messages)
                       ELSE IF NormalizeRaises(v.df) THEN Raise(d, "prepare")
                       ELSE [d EXCEPT !.pc = "hdr_read"])
     /\ UNCHANGED <<sheet, prev, ncalls>>

\* _get_or_create_headers, line 56: current_headers = worksheet.row_values(1)
HdrRead(p) ==
  LET c == call[p]
      current_headers == row_values(sheet, 1)
      df_columns == normalize_dataframe(Validated[c.excel].df,
                                        c.developer_id, c.now).cols
  IN /\ c.pc = "hdr_read"
     /\ \E ok \in BOOLEAN :
          /\ MayBe(ok)
          /\ Count(ok)
          /\ Set(p, IF ~ok THEN Raise(Logged(c, "row_values", ok), "headers")
                    ELSE IF current_headers = <<>>
                    THEN [Logged(c, "row_values", ok) EXCEPT
                            !.pc = "hdr_write", !.header = WithServiceColumns(df_columns)]
                    ELSE IF ~ServiceColsPresent(current_headers)
                    THEN [Logged(c, "row_values", ok) EXCEPT
                            !.pc = "hdr_clear", !.header = WithServiceColumns(current_headers)]
                    ELSE [Logged(c, "row_values", ok) EXCEPT
                            !.pc = "read_all", !.header = current_headers])
     /\ UNCHANGED <<sheet, prev, ncalls>>

\* _get_or_create_headers, line 71: self._clean_worksheet(worksheet)
HdrClear(p) ==
  LET c == call[p]
  IN /\ c.pc = "hdr_clear"
     /\ \E ok \in BOOLEAN :
          /\ MayBe(ok)
          /\ Count(ok)
          /\ sheet' = IF ok THEN clear(sheet) ELSE sheet
          /\ Set(p, IF ok THEN [Logged(c, "clear", ok) EXCEPT !.pc = "hdr_write"]
                    ELSE Raise(Logged(c, "clear", ok), "headers"))
     /\ UNCHANGED <<prev, ncalls>>

\* _get_or_create_headers, lines 61 and 72: worksheet.append_row(headers)
HdrWrite(p) ==
  LET c == call[p]
  IN /\ c.pc = "hdr_write"
     /\ \E ok \in BOOLEAN :
          /\ MayBe(ok)
          /\ Count(ok)
          /\ sheet' = IF ok THEN append_row(sheet, c.header) ELSE sheet
          /\ Set(p, IF ok THEN [Logged(c, "append_row", ok) EXCEPT !.pc = "read_all"]
                    ELSE Raise(Logged(c, "append_row", ok), "headers"))
     /\ UNCHANGED <<prev, ncalls>>

\* lines 340-351: new_rows is built; with no row to append the loop is skipped
ToAppend(c) ==
  IF Len(NewRows(Frame(c), c.header)) = 0 THEN Return(c, 0, <<>>)
  ELSE [c EXCEPT !.pc = "append", !.i = 0, !.total_rows = 0]

\* what follows _delete_rows_batch: line 271 (deletion only) or line 340
AfterDelete(c) ==
  IF c.excel = 0 THEN Return(c, Len(c.sorted_rows), <<>>) ELSE ToAppend(c)

\* lines 306-338: all_values = worksheet.get_all_values(), rows_to_delete
ReadAll(p) ==
  LET c == call[p]
      all_values == get_all_values(sheet)
      rows_to_delete == RowsToDelete(IF all_values = <<>> THEN <<c.header>> ELSE all_values,
                                     c.header, c.developer_id, c.file_id)
      d == Logged(c, "get_all_values", TRUE)
  IN /\ c.pc = "read_all"
     /\ \E ok \in BOOLEAN :
          /\ MayBe(ok)
          /\ Count(ok)
          \* lines 307-310: an empty worksheet gets the header again
          /\ sheet' = IF ok /\ all_values = <<>> THEN append_row(sheet, c.header) ELSE sheet
          /\ Set(p, IF ~ok THEN Raise(Logged(c, "get_all_values", ok), "update")
                    ELSE IF Index(c.header, "developer_telegram_id") = 0
                            \/ Index(c.header, "source_file_id") = 0
                    THEN Return(d, 0, <<Msg("missing_column", "", <<>>)>>)
                    ELSE IF rows_to_delete # {}
                    THEN [d EXCEPT !.pc = "del_batch",
                                   !.sorted_rows = SortedDesc(rows_to_delete), !.i = 0]
                    ELSE ToAppend(d))
     /\ UNCHANGED <<prev, ncalls>>

\* the batch _delete_rows_batch is working on: sorted_rows[i:i + BATCH_SIZE]
Batch(c) == Slice(c.sorted_rows, c.i, c.i + BATCH_SIZE)

\* the loop of line 139 moves to the next batch, or _delete_rows_batch returns
NextBatch(c) ==
  IF c.i + BATCH_SIZE >= Len(c.sorted_rows) THEN AfterDelete(c)
  ELSE [c EXCEPT !.pc = "del_batch", !.i = c.i + BATCH_SIZE]

\* _delete_rows_batch, lines 141-164: one batch_update per batch
DelBatch(p) ==
  LET c == call[p]
  IN /\ c.pc = "del_batch"
     /\ \E ok \in BOOLEAN :
          /\ MayBe(ok)
          /\ Count(ok)
          /\ sheet' = IF ok THEN batch_update(sheet, Batch(c)) ELSE sheet
          /\ Set(p, IF ok
                    THEN NextBatch([Logged(c, "batch_update", ok) EXCEPT
                                      !.removed = c.removed + Len(Batch(c))])
                    ELSE [Logged(c, "batch_update", ok) EXCEPT !.pc = "del_single", !.j = 1])
     /\ UNCHANGED <<prev, ncalls>>

\* _delete_rows_batch, lines 166-172: the rows of a failed batch one by one
DelSingle(p) ==
  LET c == call[p]
      row == Batch(c)[c.j]
      d == [Logged(c, "delete_rows", TRUE) EXCEPT !.removed = c.removed + 1]
      e == Logged(c, "delete_rows", FALSE)
  IN /\ c.pc = "del_single"
     /\ \E ok \in BOOLEAN :
          /\ MayBe(ok)
          /\ Count(ok)
          /\ sheet' = IF ok THEN delete_rows(sheet, row) ELSE sheet
          /\ Set(p, LET f == IF ok THEN d ELSE e
                    IN IF c.j >= Len(Batch(c)) THEN NextBatch(f)
                       ELSE [f EXCEPT !.j = c.j + 1])
     /\ UNCHANGED <<prev, ncalls>>

\* lines 351-358: worksheet.append_rows(batch) for new_rows[i:i + BATCH_SIZE]
AppendBatch(p) ==
  LET c == call[p]
      new_rows == NewRows(Frame(c), c.header)
      batch == Slice(new_rows, c.i, c.i + BATCH_SIZE)
      total_rows == c.total_rows + Len(batch)
  IN /\ c.pc = "append"
     /\ \E ok \in BOOLEAN :
          /\ MayBe(ok)
          /\ Count(ok)
          /\ sheet' = IF ok THEN append_rows(sheet, batch) ELSE sheet
          /\ Set(p, IF ~ok THEN Raise(Logged(c, "append_rows", ok), "update")
                    ELSE IF c.i + BATCH_SIZE >= Len(new_rows)
                    THEN Return(Logged([c EXCEPT !.total_rows = total_rows], "append_rows", ok),
                                total_rows, <<>>)
                    ELSE [Logged(c, "append_rows", ok) EXCEPT
                            !.i = c.i + BATCH_SIZE, !.total_rows = total_rows])
     /\ UNCHANGED <<prev, ncalls>>

\* deletion only, line 235: header = worksheet.row_values(1)
DelHdr(p) ==
  LET c == call[p]
      header == row_values(sheet, 1)
  IN /\ c.pc = "d_hdr"
     /\ \E ok \in BOOLEAN :
          /\ MayBe(ok)
          /\ Count(ok)
          /\ Set(p, IF ~ok THEN Raise(Logged(c, "row_values", ok), "delete_only")
                    ELSE IF header = <<>> THEN Return(Logged(c, "row_values", ok), 0, <<>>)
                    ELSE [Logged(c, "row_values", ok) EXCEPT !.pc = "d_read", !.header = header])
     /\ UNCHANGED <<sheet, prev, ncalls>>

\* deletion only, lines 240-272: all_values, rows_to_delete
DelRead(p) ==
  LET c == call[p]
      all_values == get_all_values(sheet)
      rows_to_delete == RowsToDelete(all_values, c.header, c.developer_id, c.file_id)
      d == Logged(c, "get_all_values", TRUE)
  IN /\ c.pc = "d_read"
     /\ \E ok \in BOOLEAN :
          /\ MayBe(ok)
          /\ Count(ok)
          /\ Set(p, IF ~ok THEN Raise(Logged(c, "get_all_values", ok), "delete_only")
                    ELSE IF all_values = <<>> THEN Return(d, 0, <<>>)
                    ELSE IF Index(c.header, "developer_telegram_id") = 0
                            \/ Index(c.header, "source_file_id") = 0
                    THEN Return(d, 0, <<Msg("missing_column", "", <<>>)>>)
                    ELSE IF rows_to_delete # {}
                    THEN [d EXCEPT !.pc = "del_batch",
                                   !.sorted_rows = SortedDesc(rows_to_delete), !.i = 0]
                    ELSE Return(d, 0, <<>>))
     /\ UNCHANGED <<sheet, prev, ncalls>>

\* the call has returned; the caller goes on
Finish(p) ==
  /\ call[p].pc = "done"
  /\ prev' = call[p]
  /\ Set(p, IdleCall)
  /\ UNCHANGED <<sheet, ncalls, nfail>>

Step(p) ==
  \/ Prepare(p)
  \/ HdrRead(p)
  \/ HdrClear(p)
  \/ HdrWrite(p)
  \/ ReadAll(p)
  \/ DelBatch(p)
  \/ DelSingle(p)
  \/ AppendBatch(p)
  \/ DelHdr(p)
  \/ DelRead(p)
  \/ Finish(p)

\* one caller: a call is made when no other is in progress
Next ==
  \/ StartCall(1) /\ \A q \in Procs : call[q].pc = "idle"
  \/ Step(1)

Spec == Init /\ [][Next]_vars

TypeOK ==
  /\ ncalls \in 0..MaxCalls
  /\ nfail \in 0..MaxFail
  /\ \A p \in Procs : call[p].pc \in {"idle", "prepare", "hdr_read", "hdr_clear", "hdr_write",
                          "read_all", "del_batch", "del_single", "append", "d_hdr", "d_read",
                          "done"}

(***************************************************************************)
(* Reading a worksheet: the cells of a row under a header.                 *)
(***************************************************************************)
Header(ws) == row_values(ws, 1)

DataRows(ws) == IF ws = <<>> THEN <<>> ELSE Tail(ws)

\* the cell of row under column col of header; "" when the row has no such cell
Cell(header, row, col) ==
  LET k == Index(header, col) IN IF k > 0 /\ k <= Len(row) THEN row[k] ELSE ""

OwnerOf(header, row) == Cell(header, row, "developer_telegram_id")

FileOf(header, row) == Cell(header, row, "source_file_id")

ListingOf(header, row) == Cell(header, row, "internal_id")

\* the data rows of ws that belong to an owner other than developer_id, in order
OtherOwnersRows(ws, developer_id) ==
  SelectSeq(DataRows(ws), LAMBDA row : OwnerOf(Header(ws), row) \notin {"", developer_id})

\* the data rows of ws written for (developer_id, file_id), in order
RowsOfFile(ws, developer_id, file_id) ==
  SelectSeq(DataRows(ws), LAMBDA row : /\ OwnerOf(Header(ws), row) = developer_id
                                       /\ FileOf(Header(ws), row) = file_id)

\* the header a call found is absent or has the four service columns
HeaderSound(ws) == Header(ws) = <<>> \/ ServiceColsPresent(Header(ws))

Failed(c, op) == \E k \in 1..Len(c.ops) : c.ops[k] = <<op, "fail">>

Did(c, op) == \E k \in 1..Len(c.ops) : c.ops[k] = <<op, "ok">>

\* no request of the call raised
Clean(c) == \A k \in 1..Len(c.ops) : c.ops[k][2] = "ok"

Succeeded(c) == c.pc = "done" /\ ~c.raised /\ c.result.errors = <<>>

\* _get_or_create_headers when no request raises: the worksheet and the header after it
HeaderSync(ws, df_columns) ==
  LET current_headers == row_values(ws, 1) IN
  IF current_headers = <<>>
  THEN [ws |-> append_row(ws, WithServiceColumns(df_columns)),
        header |-> WithServiceColumns(df_columns)]
  ELSE IF ~ServiceColsPresent(current_headers)
  THEN [ws |-> append_row(clear(ws), WithServiceColumns(current_headers)),
        header |-> WithServiceColumns(current_headers)]
  ELSE [ws |-> ws, header |-> current_headers]

\* update_sheet_with_excel for a valid upload when no request raises: the worksheet after it
FailureFree(ws, developer_id, file_id, excel, now) ==
  LET norm == normalize_dataframe(Validated[excel].df, developer_id, now)
      hs == HeaderSync(ws, norm.cols)
      all_values == get_all_values(hs.ws)
      rows_to_delete == RowsToDelete(all_values, hs.header, developer_id, file_id)
      new_rows == NewRows(ServiceStamped(norm, developer_id, file_id, now), hs.header)
  IN append_rows(batch_update(hs.ws, SortedDesc(rows_to_delete)), new_rows)

\* a row with its creation_date and last_update_date cells blanked
Unstamped(header, row) ==
  [k \in 1..Len(row) |->
     IF k <= Len(header) /\ header[k] \in {"creation_date", "last_update_date"}
     THEN "" ELSE row[k]]

\* the rows of a worksheet, timestamps blanked
UnstampedRows(ws) == [k \in 1..Len(ws) |-> Unstamped(Header(ws), ws[k])]

Occurrences(rows, row) == Cardinality({k \in 1..Len(rows) : rows[k] = row})

\* two worksheets hold the same multiset of rows, timestamps aside
SameRows(wa, wb) ==
  \A row \in SeqToSet(UnstampedRows(wa)) \cup SeqToSet(UnstampedRows(wb)) :
    Occurrences(UnstampedRows(wa), row) = Occurrences(UnstampedRows(wb), row)

\* the call changed the worksheet
Mutated(c) ==
  \E op \in {"clear", "append_row", "batch_update", "delete_rows", "append_rows"} : Did(c, op)

SameArgs(c, d) ==
  c.developer_id = d.developer_id /\ c.file_id = d.file_id /\ c.excel = d.excel

(***************************************************************************)
(* C1.  No two data rows of the worksheet have the same                    *)
(* (developer_telegram_id, internal_id) pair, in any state reached by      *)
(* reconcile and deletion-only calls.                                      *)
(***************************************************************************)
Cex_C1 ==
  \A a, b \in 2..Len(sheet) :
    (/\ a # b
     /\ OwnerOf(Header(sheet), sheet[a]) # ""
     /\ ListingOf(Header(sheet), sheet[a]) # "")
    => \/ OwnerOf(Header(sheet), sheet[a]) # OwnerOf(Header(sheet), sheet[b])
       \/ ListingOf(Header(sheet), sheet[a]) # ListingOf(Header(sheet), sheet[b])

(***************************************************************************)
(* C2.  A call made for one owner leaves every row of every other owner in *)
(* place and unchanged, in the same relative order, at every step of the   *)
(* call and when it returns, provided the header the call found is absent  *)
(* or holds the four service columns.                                      *)
(***************************************************************************)
Thm_C2 ==
  \A p \in Procs :
    (call[p].pc # "idle" /\ HeaderSound(call[p].pre))
    => OtherOwnersRows(sheet, call[p].developer_id)
         = OtherOwnersRows(call[p].pre, call[p].developer_id)

\* C2 as stated: whatever the header was before the call
Cex_C2 ==
  \A p \in Procs :
    call[p].pc = "done"
    => OtherOwnersRows(sheet, call[p].developer_id)
         = OtherOwnersRows(call[p].pre, call[p].developer_id)

\* a call of owner 7 has removed rows of its own beside rows of owner 8
Wit_C2 ==
  /\ Succeeded(call[1])
  /\ call[1].developer_id = "7"
  /\ call[1].removed > 0
  /\ HeaderSound(call[1].pre)
  /\ OtherOwnersRows(call[1].pre, "7") # <<>>

(***************************************************************************)
(* C3.  Two reconciles in a row of the same valid upload for the same      *)
(* owner and file, none of whose requests raises, leave exactly one row    *)
(* per listing id of the upload for that owner and file.                   *)
(***************************************************************************)
\* the call that just returned repeats the call before it, and neither had a failure
RepeatedCleanReconcile(c) ==
  /\ Succeeded(c) /\ Clean(c) /\ c.excel # 0
  /\ Succeeded(prev) /\ Clean(prev)
  /\ prev.excel = c.excel
  /\ prev.developer_id = c.developer_id
  /\ prev.file_id = c.file_id

Cex_C3 ==
  \A p \in Procs :
    RepeatedCleanReconcile(call[p])
    => LET c == call[p]
           mine == RowsOfFile(sheet, c.developer_id, c.file_id)
       IN \A r \in 1..Len(Frame(c)) :
            Cardinality({k \in 1..Len(mine) :
                           ListingOf(Header(sheet), mine[k]) = Frame(c)[r]["internal_id"]}) = 1

\* the same, for the uploads whose ids stay distinct once canonical
Aux_C3_DistinctIds ==
  \A p \in Procs :
    (RepeatedCleanReconcile(call[p]) /\ call[p].excel # 3)
    => LET c == call[p]
           mine == RowsOfFile(sheet, c.developer_id, c.file_id)
       IN /\ Len(mine) = Len(Frame(c))
          /\ \A r \in 1..Len(Frame(c)) :
               Cardinality({k \in 1..Len(mine) :
                              ListingOf(Header(sheet), mine[k]) = Frame(c)[r]["internal_id"]}) = 1

(***************************************************************************)
(* C4.  In a reconcile that finds a header with the four service columns,  *)
(* the rows selected for deletion are exactly the existing rows whose      *)
(* owner and source file are those of the call; no other row is removed,   *)
(* and every selected row is removed unless its delete request raises.  A  *)
(* row of the same owner from another source file is kept, also when its   *)
(* listing id is absent from the new dataset.                              *)
(***************************************************************************)
\* a reconcile that has gone through its delete step
PastDelete(c) ==
  /\ c.excel # 0
  /\ c.pc \in {"append", "done"}
  /\ Did(c, "get_all_values")

\* the header the call found holds the four service columns
FoundServiceHeader(c) == c.pre # <<>> /\ ServiceColsPresent(Header(c.pre))

\* the existing rows still in the worksheet: all but the rows the call appended
Kept(c) == SubSeq(sheet, 2, Len(sheet) - c.total_rows)

\* row carries the owner and the source file of call c
OfThisFile(c, row) ==
  OwnerOf(c.header, row) = c.developer_id /\ FileOf(c.header, row) = c.file_id

\* the canonical listing ids of the upload of call c
ListingIds(c) == {Frame(c)[r]["internal_id"] : r \in 1..Len(Frame(c))}

Thm_C4 ==
  \A p \in Procs :
    LET c == call[p] IN
    (PastDelete(c) /\ FoundServiceHeader(c))
    => /\ SeqToSet(c.sorted_rows) = {k \in 2..Len(c.pre) : OfThisFile(c, c.pre[k])}
       /\ SelectSeq(Kept(c), LAMBDA row : ~OfThisFile(c, row))
            = SelectSeq(DataRows(c.pre), LAMBDA row : ~OfThisFile(c, row))
       /\ ~Failed(c, "delete_rows")
            => Kept(c) = SelectSeq(DataRows(c.pre), LAMBDA row : ~OfThisFile(c, row))

\* C4 as stated: deleted iff same owner and (same file or listing id not in the upload)
Cex_C4 ==
  \A p \in Procs :
    LET c == call[p] IN
    (PastDelete(c) /\ FoundServiceHeader(c) /\ Succeeded(c) /\ Clean(c))
    => \A k \in 2..Len(c.pre) :
         Len(c.pre[k]) = Len(c.header)
         => ((c.pre[k] \notin SeqToSet(Kept(c)))
              <=> /\ OwnerOf(c.header, c.pre[k]) = c.developer_id
                  /\ \/ FileOf(c.header, c.pre[k]) = c.file_id
                     \/ ListingOf(c.header, c.pre[k]) \notin ListingIds(c))

\* a reconcile removed the rows of its file and kept a row of the same owner,
\* from another file, whose listing id the upload does not have
Wit_C4 ==
  LET c == call[1] IN
  /\ Succeeded(c) /\ PastDelete(c) /\ FoundServiceHeader(c)
  /\ c.removed > 0
  /\ \E k \in 1..Len(Kept(c)) :
       /\ OwnerOf(c.header, Kept(c)[k]) = c.developer_id
       /\ FileOf(c.header, Kept(c)[k]) \notin {"", c.file_id}
       /\ ListingOf(c.header, Kept(c)[k]) \notin ListingIds(c)

\* the steps of a reconcile without failure amount to FailureFree
Aux_FailureFree ==
  \A p \in Procs :
    LET c == call[p] IN
    (Succeeded(c) /\ Clean(c) /\ c.excel # 0)
    => sheet = FailureFree(c.pre, c.developer_id, c.file_id, c.excel, c.now)

(***************************************************************************)
(* C5.  After a successful reconcile of an upload under an owner and file  *)
(* that a successful reconcile of another upload was made under before,    *)
(* the rows of that owner and file are exactly the rows of the new upload. *)
(***************************************************************************)
ReUpload(c) ==
  /\ Succeeded(c) /\ c.excel # 0
  /\ Succeeded(prev) /\ prev.excel \notin {0, c.excel}
  /\ prev.developer_id = c.developer_id
  /\ prev.file_id = c.file_id

Cex_C5 ==
  \A p \in Procs :
    ReUpload(call[p])
    => RowsOfFile(sheet, call[p].developer_id, call[p].file_id)
         = NewRows(Frame(call[p]), Header(sheet))

\* the same, when no delete request of the second reconcile raised
Aux_C5_DeletesDone ==
  \A p \in Procs :
    (ReUpload(call[p]) /\ ~Failed(call[p], "delete_rows"))
    => RowsOfFile(sheet, call[p].developer_id, call[p].file_id)
         = NewRows(Frame(call[p]), Header(sheet))

(***************************************************************************)
(* C6.  When validate_dataframe reports an error for the upload, the       *)
(* reconcile returns (0, messages) and has sent no request to the          *)
(* worksheet: the worksheet is as it was before the call.                  *)
(***************************************************************************)
\* validation of the upload of call c ran and reported at least one error
ValidationFailed(c) ==
  /\ c.excel # 0
  /\ Did(c, "read_excel")
  /\ ~Validated[c.excel].raised
  /\ Validated[c.excel].errors # <<>>

Thm_C6 ==
  \A p \in Procs :
    LET c == call[p] IN
    ValidationFailed(c)
    => /\ c.pc = "done"
       /\ ~c.raised
       /\ c.result = [rows |-> 0, errors |-> Validated[c.excel].messages]
       /\ c.ops = <<(<<"read_excel", "ok">>)>>
       /\ sheet = c.pre

\* an upload with a repeated id was refused while the worksheet held rows
Wit_C6 ==
  /\ ValidationFailed(call[1])
  /\ call[1].pc = "done"
  /\ call[1].result.errors # <<>>
  /\ Len(sheet) > 1

(***************************************************************************)
(* C7.  update_sheet_with_excel never raises: whichever request fails,     *)
(* no exception leaves the call, and the call goes on to return a pair     *)
(* (rows_written, errors); it returns (0, [error]) when a request other    *)
(* than a delete request raised.                                           *)
(***************************************************************************)
IsMessage(m) == DOMAIN m = {"kind", "col", "items"}

\* no exception has left the call, and what it returned is a pair
ReturnsPair(c) ==
  /\ ~c.raised
  /\ c.pc = "done" => /\ c.result.rows \in Nat
                      /\ \A k \in 1..Len(c.result.errors) : IsMessage(c.result.errors[k])
                      /\ (~Clean(c) /\ ~Failed(c, "batch_update") /\ ~Failed(c, "delete_rows"))
                           => (c.result.rows = 0 /\ c.result.errors # <<>>)

\* an upper bound on the requests a call can still make
Remaining(c, ws) ==
  LET toAppend == IF c.excel = 0 THEN 0 ELSE 1 + Len(Uploads[c.excel].rows)
      left == Len(c.sorted_rows) - c.i
  IN CASE c.pc = "prepare" -> toAppend + 8 + 2 * Len(ws)
       [] c.pc = "hdr_read" -> toAppend + 7 + 2 * Len(ws)
       [] c.pc = "hdr_clear" -> toAppend + 6 + 2 * Len(ws)
       [] c.pc = "hdr_write" -> toAppend + 5 + 2 * Len(ws)
       [] c.pc = "read_all" -> toAppend + 2 + 2 * Len(ws)
       [] c.pc = "d_hdr" -> 3 + 2 * Len(ws)
       [] c.pc = "d_read" -> 2 + 2 * Len(ws)
       [] c.pc = "del_batch" -> toAppend + 1 + 2 * left
       [] c.pc = "del_single" ->
            toAppend + 1 + 2 * (left - Len(Batch(c))) + (Len(Batch(c)) - c.j + 1)
       [] c.pc = "append" -> 1 + Len(Uploads[c.excel].rows) - c.i
       [] OTHER -> 0

Thm_C7 ==
  /\ [](\A p \in Procs : ReturnsPair(call[p]))
  /\ [][\A p \in Procs :
          call[p].pc \notin {"idle", "done"}
          => /\ Remaining(call[p], sheet) > 0
             /\ Remaining(call[p], sheet)' < Remaining(call[p], sheet)]_vars

\* a call has returned (0, [error]) after a request of its append step raised
Wit_C7 ==
  /\ call[1].pc = "done"
  /\ Failed(call[1], "append_rows")
  /\ call[1].result.rows = 0
  /\ call[1].result.errors # <<>>

(***************************************************************************)
(* C8.  A reconcile in which a row selected for deletion could not be      *)
(* deleted returns (0, [error_message]) and never reports success.         *)
(***************************************************************************)
Cex_C8 ==
  \A p \in Procs :
    LET c == call[p] IN
    (c.pc = "done" /\ c.excel # 0 /\ c.removed < Len(c.sorted_rows))
    => c.result.rows = 0 /\ c.result.errors # <<>>

(***************************************************************************)
(* C9.  A reconcile that failed after it had changed the worksheet,        *)
(* followed by a reconcile with the same owner, file and upload in which   *)
(* nothing fails, leaves the rows (timestamps aside) that one reconcile    *)
(* without failure would have left from the original worksheet.            *)
(***************************************************************************)
RetryAfterFailure(c) ==
  /\ Succeeded(c) /\ Clean(c) /\ c.excel # 0
  /\ prev.pc = "done" /\ SameArgs(prev, c)
  /\ prev.result.errors # <<>>
  /\ Mutated(prev)

Cex_C9 ==
  \A p \in Procs :
    LET c == call[p] IN
    RetryAfterFailure(c)
    => SameRows(sheet, FailureFree(prev.pre, c.developer_id, c.file_id, c.excel, c.now))

\* the same, when the failed call did not stop between clearing the worksheet
\* and writing the new header
Aux_C9_HeaderWritten ==
  \A p \in Procs :
    LET c == call[p] IN
    (RetryAfterFailure(c) /\ ~Failed(prev, "append_row"))
    => SameRows(sheet, FailureFree(prev.pre, c.developer_id, c.file_id, c.excel, c.now))

(***************************************************************************)
(* C10.  A deletion-only call removes rows of its owner and file only,     *)
(* writes no header and appends no row, and the integer it returns is the  *)
(* number of rows it removed from the worksheet, also when a delete        *)
(* request fails.                                                          *)
(***************************************************************************)
Cex_C10 ==
  \A p \in Procs :
    LET c == call[p] IN
    (c.pc = "done" /\ c.excel = 0)
    => /\ c.result.rows = Len(c.pre) - Len(sheet)
       /\ \A k \in 1..Len(c.ops) : c.ops[k][1] \notin {"clear", "append_row", "append_rows"}
       /\ SelectSeq(DataRows(sheet), LAMBDA row : ~OfThisFile(c, row))
            = SelectSeq(DataRows(c.pre), LAMBDA row : ~OfThisFile(c, row))
       /\ Clean(c) => RowsOfFile(sheet, c.developer_id, c.file_id) = <<>>

\* the same without the returned integer, which holds
Aux_C10_Rows ==
  \A p \in Procs :
    LET c == call[p] IN
    (c.pc = "done" /\ c.excel = 0)
    => /\ c.removed = Len(c.pre) - Len(sheet)
       /\ ~Failed(c, "delete_rows") => c.result.rows = c.removed
       /\ \A k \in 1..Len(c.ops) : c.ops[k][1] \notin {"clear", "append_row", "append_rows"}
       /\ SelectSeq(DataRows(sheet), LAMBDA row : ~OfThisFile(c, row))
            = SelectSeq(DataRows(c.pre), LAMBDA row : ~OfThisFile(c, row))
       /\ Clean(c) => RowsOfFile(sheet, c.developer_id, c.file_id) = <<>>

(***************************************************************************)
(* C11.  Once the worksheet has a header, a call never narrows it: when    *)
(* the call returns, also after a request of it has raised, the header     *)
(* holds every column it held when the call began.                         *)
(***************************************************************************)
\* the header of wb has every column of the header of wa
HeaderKept(wa, wb) == SeqToSet(Header(wa)) \subseteq SeqToSet(Header(wb))

Cex_C11 ==
  \A p \in Procs :
    LET c == call[p] IN
    (c.pc = "done" /\ Header(c.pre) # <<>>)
    => Header(sheet) # <<>> /\ HeaderKept(c.pre, sheet)

\* the same for the calls none of whose requests raised, which holds
Aux_C11_Clean ==
  \A p \in Procs :
    LET c == call[p] IN
    (c.pc = "done" /\ Header(c.pre) # <<>> /\ Clean(c))
    => Header(sheet) # <<>> /\ HeaderKept(c.pre, sheet)

\* a header with the four service columns is left as it is at every step
Aux_C11_Sound ==
  \A p \in Procs :
    LET c == call[p] IN
    (c.pc # "idle" /\ FoundServiceHeader(c)) => Header(sheet) = Header(c.pre)

(***************************************************************************)
(* C12.  Every row a reconcile has appended holds the owner and the source *)
(* file of the call, both non-empty, under developer_telegram_id and       *)
(* source_file_id; and a call that begins on a worksheet all of whose data *)
(* rows have an owner and a source file leaves such a worksheet at every   *)
(* step, so that reconciles from an empty worksheet keep it so.            *)
(***************************************************************************)
\* the rows the call has appended so far
Appended(c) == SubSeq(sheet, Len(sheet) - c.total_rows + 1, Len(sheet))

\* every data row of ws has a non-empty owner and a non-empty source file
AllAttributed(ws) ==
  \A k \in 2..Len(ws) : OwnerOf(Header(ws), ws[k]) # "" /\ FileOf(Header(ws), ws[k]) # ""

Thm_C12 ==
  \A p \in Procs :
    LET c == call[p] IN
    (c.pc # "idle" /\ c.excel # 0)
    => /\ \A k \in 1..Len(Appended(c)) :
            /\ OwnerOf(Header(sheet), Appended(c)[k]) = c.developer_id
            /\ FileOf(Header(sheet), Appended(c)[k]) = c.file_id
            /\ c.developer_id # "" /\ c.file_id # ""
       /\ AllAttributed(c.pre) => AllAttributed(sheet)

\* a second reconcile in a row has appended rows to a worksheet that the first
\* found empty
Wit_C12 ==
  LET c == call[1] IN
  /\ Succeeded(c) /\ c.excel # 0 /\ c.total_rows > 1
  /\ Succeeded(prev) /\ prev.excel # 0 /\ prev.pre = <<>>
  /\ AllAttributed(c.pre) /\ Len(c.pre) > 1
  /\ Len(sheet) > 1 + c.total_rows

(***************************************************************************)
(* C13.  A reconcile of an upload whose validation gives warnings and no   *)
(* error writes the rows of the upload and returns the warnings to its     *)
(* caller.                                                                 *)
(***************************************************************************)
\* validation of the upload of call c gave warnings and no error
OnlyWarnings(c) ==
  /\ c.excel # 0
  /\ ~Validated[c.excel].raised
  /\ Validated[c.excel].errors = <<>>
  /\ Validated[c.excel].warnings # <<>>

Cex_C13 ==
  \A p \in Procs :
    LET c == call[p] IN
    (Succeeded(c) /\ Clean(c) /\ OnlyWarnings(c))
    => /\ c.result.rows = Len(Uploads[c.excel].rows)
       /\ SeqToSet(Validated[c.excel].warnings) \subseteq SeqToSet(c.result.errors)

\* the rows are written, and the list returned is empty
Aux_C13_Written ==
  \A p \in Procs :
    LET c == call[p] IN
    (Succeeded(c) /\ Clean(c) /\ OnlyWarnings(c))
    => /\ c.result.rows = Len(Uploads[c.excel].rows)
       /\ Appended(c) = NewRows(Frame(c), c.header)
       /\ c.result.errors = <<>>

(***************************************************************************)
(* Reading the rows back and generating the feed:                          *)
(* GoogleSheetsClient.get_developer_data and XMLFeedGenerator.generate_feed*)
(* as handle_document, handle_file_update, handle_feed_selection, getfeed  *)
(* and getallfeed call them one after the other.                           *)
(***************************************************************************)
\* safe_str of one value: a null, a number (integral in this model) or a string
safe_str(c) ==
  CASE c.t = "null" -> ""
    [] c.t = "num" -> ToString(c.n)
    [] OTHER -> Strip(c.s)

\* str(value) of Python
PyStr(c) ==
  CASE c.t = "null" -> "nan"
    [] c.t = "num" -> ToString(c.n)
    [] OTHER -> c.s

\* gspread's numericise on the cell strings of this model: int(s), else float(s),
\* else the string itself
Numericise(s) ==
  CASE s = "7" -> N(7)
    [] s = "8" -> N(8)
    [] s = "9" -> N(9)
    [] s = "2" -> N(2)
    [] s = "2.0" -> N(2)
    [] s = "50" -> N(50)
    [] s = "1000000" -> N(1000000)
    [] s = "5000000" -> N(5000000)
    [] s = "nan" -> Null
    [] OTHER -> S(s)

\* worksheet.get_all_records(expected_headers=headers): one record per data row,
\* a cell the row lacks read as ''
get_all_records(ws, headers) ==
  [k \in 1..(Len(ws) - 1) |->
     [col \in SeqToSet(headers) |-> Numericise(Cell(headers, ws[k + 1], col))]]

\* safe_str(record.get(col)): None when the record has no such key
RecordStr(record, col) == IF col \in DOMAIN record THEN safe_str(record[col]) ELSE ""

\* get_developer_data when no request raises; "" stands for an argument left None
get_developer_data(ws, developer_id, file_id) ==
  LET headers == row_values(ws, 1) IN
  IF headers = <<>> THEN <<>>
  ELSE LET records == get_all_records(ws, headers)
           by_owner == IF developer_id # ""
                       THEN SelectSeq(records, LAMBDA record :
                              RecordStr(record, "developer_telegram_id") = developer_id)
                       ELSE records
       IN IF file_id # ""
          THEN SelectSeq(by_owner, LAMBDA record : RecordStr(record, "source_file_id") = file_id)
          ELSE by_owner

\* pd.notna(value)
NotNa(c) == c.t # "null"

\* row.get(col): None when the row has no such column
RowGet(row, col) == IF col \in DOMAIN row THEN row[col] ELSE Null

\* str(row.get(col, default))
RowStr(row, col, default) == IF col \in DOMAIN row THEN PyStr(row[col]) ELSE default

\* the optional fields of _add_offer in the order of lines 131-201, each with the
\* element it is emitted as; price, area, living-space and kitchen-space are
\* composite, the text being that of their value child
OptionalFields ==
  << <<"creation_date", "creation-date">>, <<"address", "address">>,
     <<"metro_station", "metro-station">>, <<"distance_to_metro", "distance-to-metro">>,
     <<"price", "price">>, <<"price_sale", "price-sale">>, <<"area_total", "area">>,
     <<"area_living", "living-space">>, <<"area_kitchen", "kitchen-space">>,
     <<"floor", "floor">>, <<"floors_total", "floors-total">>,
     <<"building_name", "building-name">>, <<"built_year", "built-year">>,
     <<"section", "section">>, <<"construction_type", "construction-type">>,
     <<"elevator_count", "elevator-count">>, <<"number", "apartment-number">>,
     <<"rooms", "rooms">>, <<"ceiling_height", "ceiling-height">>,
     <<"renovation_type", "renovation-type">>, <<"balcony_type", "balcony-type">>,
     <<"has_parking", "has-parking">>, <<"windows_view", "window-view">>,
     <<"description", "description">>, <<"mortgage_available", "mortgage-available">>,
     <<"initial_payment", "initial-payment">>, <<"developer_name", "developer-name">> >>

\* the element of an optional field
ElementOf(col) == OptionalFields[CHOOSE k \in 1..Len(OptionalFields) : OptionalFields[k][1] = col][2]

\* the attribute read under the key 'internal-id', which no record has
OfferId_WrongKey(record) == IF "internal-id" \in DOMAIN record THEN PyStr(record["internal-id"]) ELSE ""

\* _add_offer: the internal-id attribute of the offer of one record
OfferId(record) == IF "internal_id" \in DOMAIN record THEN PyStr(record["internal_id"]) ELSE ""

\* a node of the document: a complex or building group with its children, or an
\* offer with its elements as (tag, text) pairs in document order
Node(tag, id, name, children, elems) ==
  [tag |-> tag, id |-> id, name |-> name, children |-> children, elems |-> elems]

\* _add_offer: the offer of one row; the defaults 'sale', 'flat', 'residential'
\* and 'Russia' stand for the Russian words of lines 128-135
add_offer(row) ==
  LET present == SelectSeq(OptionalFields, LAMBDA f : NotNa(RowGet(row, f[1])))
  IN Node("offer", OfferId(row), "", <<>>,
          << <<"type", RowStr(row, "category", "sale")>>,
             <<"property-type", RowStr(row, "property_type", "flat")>>,
             <<"category", RowStr(row, "category", "residential")>>,
             <<"country", "Russia">> >>
          \o [k \in 1..Len(present) |-> <<present[k][2], PyStr(row[present[k][1]])>>])

\* 'col' in df.columns for the frame pd.DataFrame(data) of records with one key set
InColumns(df, col) == df # <<>> /\ col \in DOMAIN df[1]

\* the group names of this model in the order sorted() gives them
KeyOrder == <<"", "A", "B", "K1">>

\* the keys of df.groupby(col): the distinct values that are not null, sorted
GroupKeys(df, col) ==
  SelectSeq(KeyOrder, LAMBDA key : \E k \in 1..Len(df) : NotNa(df[k][col]) /\ PyStr(df[k][col]) = key)

\* the group of one key: its rows in the order of the frame
GroupOf(df, col, key) ==
  SelectSeq(df, LAMBDA row : NotNa(row[col]) /\ PyStr(row[col]) = key)

Offers(df) == [k \in 1..Len(df) |-> add_offer(df[k])]

\* lines 61-68 and 76-83: one building element per key
Buildings(df, prefix) ==
  LET keys == GroupKeys(df, "building_name")
  IN [k \in 1..Len(keys) |->
        Node("building", "building_" \o prefix \o keys[k], keys[k],
             Offers(GroupOf(df, "building_name", keys[k])), <<>>)]

\* lines 49-72: one complex element per key
Complexes(df) ==
  LET keys == GroupKeys(df, "complex_name")
  IN [k \in 1..Len(keys) |->
        LET complex_group == GroupOf(df, "complex_name", keys[k])
            complex_id == IF InColumns(df, "developer_id")
                          THEN "complex_" \o PyStr(complex_group[1]["developer_id"]) \o "_" \o keys[k]
                          ELSE "complex_" \o keys[k]
        IN Node("complex", complex_id, keys[k],
                IF InColumns(df, "building_name")
                THEN Buildings(complex_group, complex_id \o "_")
                ELSE Offers(complex_group),
                <<>>)]

\* lines 47-88: the children of the root after generation-date
Body(df) ==
  IF InColumns(df, "complex_name") THEN Complexes(df)
  ELSE IF InColumns(df, "building_name") THEN Buildings(df, "")
  ELSE Offers(df)

\* the offers of a group, or the offer itself
Leaves(node) == IF node.tag = "offer" THEN <<node>> ELSE node.children

\* the offers under a node, in document order
OffersIn(node) ==
  IF node.tag = "offer" THEN <<node>>
  ELSE ConcatAll([k \in 1..Len(node.children) |-> Leaves(node.children[k])])

\* the offers of a document body, in document order
OffersOf(body) == ConcatAll([k \in 1..Len(body) |-> OffersIn(body[k])])

\* lines 35-39: the rows the owner filter lets through
OwnerFilter(data, developer_id) ==
  IF developer_id # "" /\ InColumns(data, "developer_telegram_id")
  THEN SelectSeq(data, LAMBDA record : PyStr(record["developer_telegram_id"]) = developer_id)
  ELSE data

\* generate_feed at time now: raised (df['developer_telegram_id'] on records without
\* that key), else the document: empty ("" is returned), or generation-date and the
\* elements after it; offers is the internal-id of its offers in document order
generate_feed(data, developer_id, now) ==
  LET df == OwnerFilter(data, developer_id)
      raised == data # <<>> /\ developer_id # "" /\ ~InColumns(data, "developer_telegram_id")
      body == IF raised THEN <<>> ELSE Body(df)
  IN [raised |-> raised,
      empty |-> df = <<>>,
      date |-> now,
      body |-> body,
      offers |-> [k \in 1..Len(OffersOf(body)) |-> OffersOf(body)[k].id]]

\* the arguments of one feed request: developer_id and file_id for
\* get_developer_data, developer_id for generate_feed ("" for None)
FeedRequests ==
  UNION {{<<who[1], "", who[1]>>, <<who[1], who[2], "">>, <<who[1], who[2], who[1]>>} :
           who \in Callers}
  \cup {<<"", "", "">>}

\* records = get_developer_data(...); generate_feed(records, ...).  A request of
\* get_developer_data that raises makes it return [] (lines 395-397).
GenerateFeed ==
  /\ \A p \in Procs : call[p].pc = "idle"
  /\ feed = NoFeed
  /\ \E req \in FeedRequests, ok \in BOOLEAN :
       LET records == IF ok THEN get_developer_data(sheet, req[1], req[2]) ELSE <<>>
       IN /\ MayBe(ok)
          /\ Count(ok)
          /\ feed' = [op |-> "feed", developer_id |-> req[1], file_id |-> req[2],
                      filter |-> req[3], read |-> ok, records |-> records,
                      xml |-> generate_feed(records, req[3], Now(ncalls + 1))]
  /\ UNCHANGED <<sheet, call, prev, ncalls, dataset, outcome, outfile, metadata, handler, storage>>

\* the scenario's reconcile, or a deletion-only call, by any caller
StartScenarioCall(p) ==
  /\ feed = NoFeed
  /\ \E who \in Callers, excel \in {0, ScenarioUpload} : Begin(p, who, excel)

NextFeed ==
  \/ (StartScenarioCall(1) /\ \A q \in Procs : call[q].pc = "idle")
  \/ Step(1)
  \/ GenerateFeed

SpecFeed == Init /\ [][NextFeed]_vars

(***************************************************************************)
(* C14.  From an empty worksheet, a reconcile without failure of the       *)
(* one-listing upload (x1) for owner 7 and file f1 leaves exactly one data *)
(* row, of listing x1 and owner 7; the feed generated from the rows read   *)
(* back for owner 7 has exactly one offer, whose internal-id is x1.        *)
(***************************************************************************)
\* the scenario's call was the only one and has returned without failure
ScenarioDone ==
  /\ ncalls = 1 /\ call[1].pc = "idle"
  /\ Succeeded(prev) /\ Clean(prev)
  /\ prev.pre = <<>>
  /\ prev.excel = ScenarioUpload /\ prev.developer_id = "7" /\ prev.file_id = "f1"

Thm_C14 ==
  ScenarioDone
  => /\ Len(sheet) = 2
     /\ ListingOf(Header(sheet), sheet[2]) = "x1"
     /\ OwnerOf(Header(sheet), sheet[2]) = "7"
     /\ (feed # NoFeed /\ feed.read /\ feed.developer_id = "7" /\ feed.file_id \in {"", "f1"})
          => /\ ~feed.xml.raised /\ ~feed.xml.empty
             /\ feed.xml.offers = <<"x1">>

\* the feed of owner 7 was generated after the scenario's reconcile
Wit_C14 ==
  /\ ScenarioDone
  /\ feed # NoFeed /\ feed.read
  /\ feed.developer_id = "7" /\ feed.filter = "7"
  /\ Len(feed.records) = 1

(***************************************************************************)
(* Two calls at once.  update_sheet_with_excel takes no lock and reads,    *)
(* deletes by row index and appends in separate requests, so the requests  *)
(* of two calls that run at the same time (two instances of the bot on one *)
(* spreadsheet) reach the worksheet in any order.                          *)
(***************************************************************************)
\* the two callers are one owner, with one file or two
RaceCallers == {who \in Callers : who[1] = "7"}

\* the uploads they send: two listings, one listing
RaceUploads == {2, ScenarioUpload}

StartRaceCall(p) == \E who \in RaceCallers, excel \in RaceUploads : Begin(p, who, excel)

\* the steps of a reconcile; each caller makes one call
RaceStep(p) ==
  \/ Prepare(p)
  \/ HdrRead(p)
  \/ HdrClear(p)
  \/ HdrWrite(p)
  \/ ReadAll(p)
  \/ DelBatch(p)
  \/ DelSingle(p)
  \/ AppendBatch(p)

NextRace == \E p \in Procs : StartRaceCall(p) \/ RaceStep(p)

SpecRace == Init /\ [][NextRace]_vars

(***************************************************************************)
(* C15.  Two reconciles of one owner whose requests interleave can end     *)
(* with the rows both wrote for one (owner, file) side by side, or with a  *)
(* row deleted that neither had selected; two reconciles one after the     *)
(* other cannot.                                                           *)
(***************************************************************************)
\* call a began before call b
Earlier(a, b) == \E k, m \in 1..MaxCalls : k < m /\ a.now = Now(k) /\ b.now = Now(m)

\* both callers' reconciles have returned, neither with a failed request, the
\* first of them having found a header with the four service columns
BothReturned ==
  /\ \A p \in Procs : Succeeded(call[p]) /\ Clean(call[p]) /\ call[p].excel # 0
  /\ \E p \in Procs : FoundServiceHeader(call[p]) /\ \A q \in Procs \ {p} : Earlier(call[p], call[q])

\* the call that began first, the call that began last
First == call[CHOOSE p \in Procs : \A q \in Procs \ {p} : Earlier(call[p], call[q])]

Last == call[CHOOSE p \in Procs : \A q \in Procs \ {p} : Earlier(call[q], call[p])]

Overlapped == \E p \in Procs : call[p].concurrent

\* row belongs to the owner and file of one of the two calls
OfEitherFile(row) ==
  \E p \in Procs : /\ OwnerOf(Header(sheet), row) = call[p].developer_id
                   /\ FileOf(Header(sheet), row) = call[p].file_id

\* the rows written by both calls for the same owner and file are in the worksheet
Coexist ==
  /\ First.file_id = Last.file_id
  /\ Len(RowsOfFile(sheet, Last.developer_id, Last.file_id))
       > Len(NewRows(Frame(Last), Header(sheet)))

\* a row that neither call had selected is gone
LostRow ==
  SelectSeq(DataRows(sheet), LAMBDA row : ~OfEitherFile(row))
    # SelectSeq(DataRows(First.pre), LAMBDA row : ~OfEitherFile(row))

\* supersede by source file: the rows of the last call's file are the rows of its
\* upload, the rows of the first call's file, if another, those of its upload, and
\* the rows of no other owner or file have changed
Superseded ==
  /\ RowsOfFile(sheet, Last.developer_id, Last.file_id) = NewRows(Frame(Last), Header(sheet))
  /\ First.file_id # Last.file_id
       => RowsOfFile(sheet, First.developer_id, First.file_id)
            = NewRows(Frame(First), Header(sheet))
  /\ ~LostRow

Thm_C15 == (BothReturned /\ ~Overlapped) => Superseded

\* interleaved reconciles of one file have left the rows of both uploads
Wit_C15 == BothReturned /\ Overlapped /\ Coexist

\* interleaved reconciles have deleted a row neither had selected (reachable too)
Aux_C15_LostRow == BothReturned /\ Overlapped /\ LostRow

(***************************************************************************)
(* The validator and the normalizer on their own: validate_dataframe and   *)
(* normalize_dataframe applied to every frame of at most MaxRows rows over *)
(* the cells below, with any of the columns left out.                      *)
(***************************************************************************)
\* rows of a frame handed to the functions
MaxRows == 2

\* the cells a column may hold: ids equal, equal up to a blank, or missing; a
\* price positive, negative, or not a number; a number of rooms missing or given
FullRows ==
  [internal_id : {S("x1"), S("x1 "), Null},
   address : {S("a")},
   price : {N(5000000), N(-1), S("abc")},
   area_total : {N(50)},
   rooms : {Null, N(2)}]

Restrict(row, colset) == [col \in colset |-> row[col]]

\* the frames of n rows over a set of the columns, the columns in the order of
\* TypedColumns
Datasets(colset, n) ==
  {[cols |-> SelectSeq(TypedColumns, LAMBDA col : col \in colset), rows |-> rows] :
     rows \in [1..n -> {Restrict(row, colset) : row \in FullRows}]}

\* a normalized frame read as a frame again: every cell a string
AsFrame(norm) ==
  [cols |-> norm.cols,
   rows |-> [r \in 1..Len(norm.rows) |-> [col \in DOMAIN norm.rows[r] |-> S(norm.rows[r][col])]]]

InitFn ==
  /\ sheet = <<>>
  /\ call = [p \in Procs |-> IdleCall]
  /\ prev = IdleCall
  /\ ncalls = 0
  /\ nfail = 0
  /\ \E colset \in SUBSET SeqToSet(TypedColumns), n \in 0..MaxRows :
       dataset \in Datasets(colset, n)
  /\ outcome = NoOutcome
  /\ feed = NoFeed
  /\ outfile = NoFile
  /\ metadata = NoMetadata
  /\ handler = IdleHandler
  /\ storage = NoStorage

\* is_valid, messages = validator.validate_dataframe(df)
Validate ==
  /\ outcome = NoOutcome
  /\ outcome' = [op |-> "validate", v |-> validate_dataframe(dataset)]
  /\ UNCHANGED <<sheet, call, prev, ncalls, nfail, dataset, feed, outfile, metadata, handler, storage>>

\* processor.normalize_dataframe(df, developer_id)
Normalize ==
  /\ outcome = NoOutcome
  /\ outcome' = [op |-> "normalize", raised |-> NormalizeRaises(dataset),
                 v |-> normalize_dataframe(dataset, "7", Now(1))]
  /\ UNCHANGED <<sheet, call, prev, ncalls, nfail, dataset, feed, outfile, metadata, handler, storage>>

\* normalize_dataframe applied to the frame it returned
NormalizeAgain ==
  /\ outcome.op = "normalize" /\ ~outcome.raised
  /\ outcome' = [op |-> "normalize_again", raised |-> NormalizeRaises(AsFrame(outcome.v)),
                 first |-> outcome.v,
                 v |-> normalize_dataframe(AsFrame(outcome.v), "7", Now(1))]
  /\ UNCHANGED <<sheet, call, prev, ncalls, nfail, dataset, feed, outfile, metadata, handler, storage>>

NextFn == Validate \/ Normalize \/ NormalizeAgain

SpecFn == InitFn /\ [][NextFn]_vars

\* the required columns the frame lacks
MissingRequired(df) == {col \in SeqToSet(REQUIRED_COLUMNS) : ~HasCol(df, col)}

(***************************************************************************)
(* C16.  What validate_dataframe returns: ok is true exactly when it found *)
(* no error, messages is the errors followed by the warnings, and warnings *)
(* leave ok as it is.                                                      *)
(***************************************************************************)
Thm_C16 ==
  (outcome.op = "validate" /\ ~outcome.v.raised)
  => /\ outcome.v.ok <=> outcome.v.errors = <<>>
     /\ outcome.v.messages = outcome.v.errors \o outcome.v.warnings

\* a frame with a warning and no error was found valid
Wit_C16 ==
  /\ outcome.op = "validate" /\ ~outcome.v.raised
  /\ outcome.v.warnings # <<>> /\ outcome.v.errors = <<>>
  /\ outcome.v.ok

(***************************************************************************)
(* C17.  For a frame that lacks a required column, validate_dataframe      *)
(* returns, with ok false and, for every required column the frame lacks,  *)
(* a message that names it.                                                *)
(***************************************************************************)
NamesMissing(v, df) ==
  \A col \in MissingRequired(df) : Msg("missing_column", col, <<>>) \in SeqToSet(v.messages)

Cex_C17 ==
  (outcome.op = "validate" /\ MissingRequired(dataset) # {})
  => /\ ~outcome.v.raised
     /\ ~outcome.v.ok
     /\ NamesMissing(outcome.v, dataset)

\* the same for the frames on which validate_dataframe returns, which holds
Aux_C17_Returned ==
  (outcome.op = "validate" /\ MissingRequired(dataset) # {} /\ ~outcome.v.raised)
  => /\ ~outcome.v.ok
     /\ NamesMissing(outcome.v, dataset)

\* it returns for every frame that has an internal_id column and no text where a
\* number is due
Aux_C17_Raises ==
  outcome.op = "validate"
  => (outcome.v.raised <=> \/ ~HasCol(dataset, "internal_id")
                           \/ \E col \in {"price", "area_total"} :
                                HasCol(dataset, col) /\ HasStr(dataset, col))

(***************************************************************************)
(* C18.  validate_dataframe reports duplicate ids exactly when some id is  *)
(* in more than one row of the frame, and the ids it lists are the ids     *)
(* that are in more than one row.                                          *)
(***************************************************************************)
\* the ids of the frame: the internal_id cells as strings, a missing id being
\* counted as a value of its own as duplicated() counts it
IdOf(c) == IF c.t = "num" THEN ToString(c.n) ELSE c.s

Ids(df) == IF HasCol(df, "internal_id")
           THEN [r \in 1..Len(df.rows) |-> <<IsNull(df.rows[r]["internal_id"]),
                                              IdOf(df.rows[r]["internal_id"])>>]
           ELSE <<>>

\* the ids that are in more than one row, as listed in a message
RepeatedIds(df) ==
  {Ids(df)[r][2] : r \in {q \in 1..Len(Ids(df)) :
                            \E o \in 1..Len(Ids(df)) : o # q /\ Ids(df)[o] = Ids(df)[q]}}

\* the duplicate-id messages validate_dataframe returned; none if it raised
DuplicateReports(v) ==
  IF v.raised THEN {} ELSE {m \in SeqToSet(v.messages) : m.kind = "duplicate_ids"}

Cex_C18 ==
  outcome.op = "validate"
  => /\ DuplicateReports(outcome.v) # {} <=> RepeatedIds(dataset) # {}
     /\ \A m \in DuplicateReports(outcome.v) : SeqToSet(m.items) = RepeatedIds(dataset)

\* the same for the frames on which validate_dataframe returns, which holds
Aux_C18_Returned ==
  (outcome.op = "validate" /\ ~outcome.v.raised)
  => /\ DuplicateReports(outcome.v) # {} <=> RepeatedIds(dataset) # {}
     /\ \A m \in DuplicateReports(outcome.v) : SeqToSet(m.items) = RepeatedIds(dataset)

(***************************************************************************)
(* C19.  normalize_dataframe gives every cell of the frame the string      *)
(* safe_str gives for the cell: '' for a missing value, the integer        *)
(* numeral for an integral number, the trimmed text for a string.          *)
(***************************************************************************)
\* the cells of the normalized frame v that differ from safe_str of the cell of df
NotCanonical(df, v) ==
  {<<r, col>> \in (1..Len(df.rows)) \X SeqToSet(df.cols) :
     v.rows[r][col] # safe_str(df.rows[r][col])}

Cex_C19 ==
  (outcome.op = "normalize" /\ ~outcome.raised)
  => NotCanonical(dataset, outcome.v) = {}

\* the cells that differ are those of the columns with a missing value: the
\* missing value itself and the numbers beside it
Aux_C19_NullColumns ==
  (outcome.op = "normalize" /\ ~outcome.raised)
  => \A rc \in NotCanonical(dataset, outcome.v) :
       /\ \E r \in 1..Len(dataset.rows) : IsNull(dataset.rows[r][rc[2]])
       /\ dataset.rows[rc[1]][rc[2]].t \in {"null", "num"}

(***************************************************************************)
(* C20.  normalize_dataframe applied to the frame it returned, for the     *)
(* same owner, returns, and returns the same columns and rows.             *)
(***************************************************************************)
Cex_C20 ==
  outcome.op = "normalize_again"
  => /\ ~outcome.raised
     /\ outcome.v.cols = outcome.first.cols
     /\ outcome.v.rows = outcome.first.rows

\* the second application always raises: the columns it inserts are there
Aux_C20_Raises == outcome.op = "normalize_again" => outcome.raised

\* cell by cell the second application would change nothing
Aux_C20_Cells ==
  outcome.op = "normalize_again"
  => \A r \in 1..Len(outcome.first.rows) : \A col \in SeqToSet(dataset.cols) :
       CanonicalCell(AsFrame(outcome.first), col, S(outcome.first.rows[r][col]))
         = outcome.first.rows[r][col]

(***************************************************************************)
(* The feed generator on its own: generate_feed and create_xml_feed        *)
(* applied to every list of at most MaxRecs records over the cells below,  *)
(* with and without an owner filter.                                       *)
(***************************************************************************)
\* records handed to the generator
MaxRecs == 3

\* the column sets of the records: with the owner and any of the two grouping
\* columns, or flat with the optional fields area_kitchen and rooms
FeedColumns ==
  { {"developer_telegram_id", "internal_id"},
    {"developer_telegram_id", "internal_id", "complex_name"},
    {"developer_telegram_id", "internal_id", "building_name"},
    {"developer_telegram_id", "internal_id", "complex_name", "building_name"},
    {"developer_telegram_id", "internal_id", "area_kitchen"},
    {"internal_id"},
    {"internal_id", "area_kitchen"},
    {"internal_id", "area_kitchen", "rooms"} }

\* the cells a column may hold: a value, the empty string an empty worksheet cell
\* is read as, or null; the records with both grouping columns are of one owner
FeedCells(col, colset) ==
  CASE col = "developer_telegram_id" ->
         IF {"complex_name", "building_name"} \subseteq colset THEN {N(7)} ELSE {N(7), N(8)}
    [] col = "complex_name" -> IF "building_name" \in colset THEN {S("A"), S("B"), Null}
                               ELSE {S("A"), S("B"), S(""), Null}
    [] col = "building_name" -> IF "complex_name" \in colset THEN {S("K1"), Null}
                                ELSE {S("K1"), S(""), Null}
    [] col = "area_kitchen" -> {N(10), S(""), Null}
    [] col = "rooms" -> {N(2), Null}
    [] OTHER -> {Null}

\* the records over a column set
FeedRows(colset) ==
  {row \in [colset -> UNION {FeedCells(col, colset) : col \in colset}] :
     \A col \in colset : row[col] \in FeedCells(col, colset)}

\* the record at position r: its internal_id is x1, x2, ... by position
Numbered(rows) ==
  [r \in 1..Len(rows) |-> [rows[r] EXCEPT !["internal_id"] = S("x" \o ToString(r))]]

\* the file a feed created earlier left at output_path
OldFile ==
  [exists |-> TRUE, complete |-> TRUE,
   xml |-> [raised |-> FALSE, empty |-> FALSE, date |-> "t0", body |-> <<>>, offers |-> <<>>]]

\* create_xml_feed that opens output_path before it renders
create_xml_feed_OpensFirst(data, developer_id, now, old, io) ==
  LET xml_content == generate_feed(data, developer_id, now)
      opened == [exists |-> TRUE, complete |-> FALSE, xml |-> xml_content]
  IN IF io = "open" THEN [ret |-> FALSE, raised |-> FALSE, file |-> old]
     ELSE IF xml_content.raised \/ xml_content.empty \/ io = "write"
     THEN [ret |-> FALSE, raised |-> FALSE, file |-> opened]
     ELSE [ret |-> TRUE, raised |-> FALSE, file |-> [opened EXCEPT !.complete = TRUE]]

\* create_xml_feed: what it returns and the file it leaves at output_path, old being
\* the file before; io tells whether open() raises, f.write() raises part-way, or
\* neither.  Every statement is inside try ... except Exception: return False.
create_xml_feed(data, developer_id, now, old, io) ==
  LET xml_content == generate_feed(data, developer_id, now)
      written == [exists |-> TRUE, complete |-> io = "ok", xml |-> xml_content]
  IN IF xml_content.raised \/ xml_content.empty \/ io = "open"
     THEN [ret |-> FALSE, raised |-> FALSE, file |-> old]
     ELSE [ret |-> io = "ok", raised |-> FALSE, file |-> written]

\* the owner filters of the calls: none, or owner 7
FeedOwners == {"", "7"}

InitGen ==
  /\ sheet = <<>>
  /\ call = [p \in Procs |-> IdleCall]
  /\ prev = IdleCall
  /\ ncalls = 0
  /\ nfail = 0
  \* every list of at most MaxRecs records over one of the column sets
  /\ \E colset \in FeedColumns, n \in 0..MaxRecs :
       \E rows \in [1..n -> FeedRows(colset)] :
         dataset = [cols |-> colset, rows |-> Numbered(rows)]
  /\ outcome = NoOutcome
  /\ feed = NoFeed
  /\ outfile \in {NoFile, OldFile}
  /\ metadata = NoMetadata
  /\ handler = IdleHandler
  /\ storage = NoStorage

\* xml_content = xml_generator.generate_feed(records, developer_id)
Render ==
  /\ feed = NoFeed /\ outcome = NoOutcome
  /\ \E developer_id \in FeedOwners :
       feed' = [op |-> "render", filter |-> developer_id,
                xml |-> generate_feed(dataset.rows, developer_id, Now(1))]
  /\ UNCHANGED <<sheet, call, prev, ncalls, nfail, dataset, outcome, outfile, metadata, handler, storage>>

\* the same call on the same records, later
RenderAgain ==
  /\ feed # NoFeed /\ feed.op = "render"
  /\ feed' = [op |-> "render_again", filter |-> feed.filter, first |-> feed.xml,
              xml |-> generate_feed(dataset.rows, feed.filter, Now(2))]
  /\ UNCHANGED <<sheet, call, prev, ncalls, nfail, dataset, outcome, outfile, metadata, handler, storage>>

\* xml_generator.create_xml_feed(records, output_path, developer_id)
CreateFeed ==
  /\ feed = NoFeed /\ outcome = NoOutcome
  /\ \E developer_id \in FeedOwners, io \in {"ok", "open", "write"} :
       LET r == create_xml_feed(dataset.rows, developer_id, Now(1), outfile, io)
       IN /\ MayBe(io = "ok")
          /\ Count(io = "ok")
          /\ outcome' = [op |-> "create", filter |-> developer_id, io |-> io, old |-> outfile,
                         ret |-> r.ret, raised |-> r.raised]
          /\ outfile' = r.file
  /\ UNCHANGED <<sheet, call, prev, ncalls, dataset, feed, metadata, handler, storage>>

NextGen == Render \/ RenderAgain \/ CreateFeed

SpecGen == InitGen /\ [][NextGen]_vars

\* the rows of the input that pass the owner filter of the call
Passing(data, developer_id) == OwnerFilter(data, developer_id)

\* the feed just rendered, from a call that returned a document
Rendered == feed # NoFeed /\ feed.op = "render" /\ ~feed.xml.raised /\ ~feed.xml.empty

\* the internal-id of the offers of the document just rendered, in document order
RenderedIds == feed.xml.offers

\* the internal_id of the rows that pass the owner filter, in input order
PassingIds == [k \in 1..Len(Passing(dataset.rows, feed.filter)) |->
                 OfferId(Passing(dataset.rows, feed.filter)[k])]

\* a row that passes the filter has a null in a grouping column
NullGroupCell ==
  \E k \in 1..Len(Passing(dataset.rows, feed.filter)) :
    \E col \in {"complex_name", "building_name"} \cap dataset.cols :
      IsNull(Passing(dataset.rows, feed.filter)[k][col])

(***************************************************************************)
(* C21.  The document generate_feed returns has exactly one offer for      *)
(* every row that passes the owner filter (every row when no owner is      *)
(* given) and no other offer, whichever grouping columns the rows have and *)
(* whether the cells of these columns are names, empty or null.            *)
(***************************************************************************)
Cex_C21 ==
  Rendered
  => /\ Len(RenderedIds) = Len(PassingIds)
     /\ SeqToSet(RenderedIds) = SeqToSet(PassingIds)

\* every offer is that of a row that passes the filter, and no row has two
Aux_C21_NoOther ==
  Rendered
  => /\ SeqToSet(RenderedIds) \subseteq SeqToSet(PassingIds)
     /\ \A a, b \in 1..Len(RenderedIds) : RenderedIds[a] = RenderedIds[b] => a = b

\* one offer per passing row when no grouping cell is null, empty names included
Aux_C21_NoNull ==
  (Rendered /\ ~NullGroupCell)
  => /\ Len(RenderedIds) = Len(PassingIds)
     /\ SeqToSet(RenderedIds) = SeqToSet(PassingIds)

(***************************************************************************)
(* C22.  An offer has the element of an optional field only if the row has *)
(* a value for it that is neither null nor the empty string (an empty      *)
(* worksheet cell is read back as the empty string), and no element of an  *)
(* offer has empty text.                                                   *)
(***************************************************************************)
\* the row an offer was made from (the ids of the rows are distinct)
RowOf(offer) == CHOOSE row \in SeqToSet(dataset.rows) : OfferId(row) = offer.id

\* the offer has an element with this tag
HasElement(offer, tag) == \E k \in 1..Len(offer.elems) : offer.elems[k][1] = tag

RenderedOffers == OffersOf(feed.xml.body)

Cex_C22 ==
  Rendered
  => \A k \in 1..Len(RenderedOffers) :
       LET offer == RenderedOffers[k] IN
       /\ \A f \in SeqToSet(OptionalFields) :
            HasElement(offer, f[2])
            => /\ NotNa(RowGet(RowOf(offer), f[1]))
               /\ PyStr(RowGet(RowOf(offer), f[1])) # ""
       /\ \A e \in 1..Len(offer.elems) : offer.elems[e][2] # ""

\* the element is there exactly when the row has the column and the cell is not
\* null: an absent column and a null give no element, the empty string gives one
Aux_C22_NotNull ==
  Rendered
  => \A k \in 1..Len(RenderedOffers) :
       \A f \in SeqToSet(OptionalFields) :
         HasElement(RenderedOffers[k], f[2]) <=> NotNa(RowGet(RowOf(RenderedOffers[k]), f[1]))

(***************************************************************************)
(* C23.  With a complex_name column the document has one complex group per *)
(* distinct complex name of the rows, which holds, directly or in its      *)
(* building groups, the offers of exactly the rows of that name in input   *)
(* order; with a building_name column only, one building group per         *)
(* distinct building name likewise; with neither, the offers lie flat      *)
(* under the root in input order.                                          *)
(***************************************************************************)
\* the ids of the passing rows whose cell in col is the name, in input order
IdsNamed(col, name) ==
  LET rows == SelectSeq(Passing(dataset.rows, feed.filter),
                        LAMBDA row : NotNa(row[col]) /\ PyStr(row[col]) = name)
  IN [k \in 1..Len(rows) |-> OfferId(rows[k])]

\* the distinct names in col of the passing rows
Names(col) ==
  {PyStr(Passing(dataset.rows, feed.filter)[k][col]) :
     k \in {j \in 1..Len(Passing(dataset.rows, feed.filter)) :
              NotNa(Passing(dataset.rows, feed.filter)[j][col])}}

\* the body is one group of this tag per name of col, each with the offers of its rows
GroupedBy(body, tag, col) ==
  /\ \A k \in 1..Len(body) : body[k].tag = tag
  /\ Len(body) = Cardinality(Names(col))
  /\ \A name \in Names(col) :
       \E k \in 1..Len(body) :
         /\ body[k].name = name
         /\ [j \in 1..Len(OffersIn(body[k])) |-> OffersIn(body[k])[j].id] = IdsNamed(col, name)

Cex_C23 ==
  Rendered
  => IF "complex_name" \in dataset.cols THEN GroupedBy(feed.xml.body, "complex", "complex_name")
     ELSE IF "building_name" \in dataset.cols
     THEN GroupedBy(feed.xml.body, "building", "building_name")
     ELSE /\ \A k \in 1..Len(feed.xml.body) : feed.xml.body[k].tag = "offer"
          /\ RenderedIds = PassingIds

\* the same when no building_name cell under a complex is null, which holds
Aux_C23_Buildings ==
  (Rendered /\ ~(/\ {"complex_name", "building_name"} \subseteq dataset.cols
                 /\ \E k \in 1..Len(dataset.rows) : IsNull(dataset.rows[k]["building_name"])))
  => IF "complex_name" \in dataset.cols THEN GroupedBy(feed.xml.body, "complex", "complex_name")
     ELSE IF "building_name" \in dataset.cols
     THEN GroupedBy(feed.xml.body, "building", "building_name")
     ELSE /\ \A k \in 1..Len(feed.xml.body) : feed.xml.body[k].tag = "offer"
          /\ RenderedIds = PassingIds

\* rows A, A, B give two complex groups of 2 and 1 offers
Aux_C23_Example ==
  (/\ Rendered /\ feed.filter = ""
   /\ dataset.cols = {"developer_telegram_id", "internal_id", "complex_name"}
   /\ [k \in 1..Len(dataset.rows) |-> dataset.rows[k]["complex_name"]] = <<S("A"), S("A"), S("B")>>)
  => /\ Len(feed.xml.body) = 2
     /\ Len(OffersIn(feed.xml.body[1])) = 2
     /\ Len(OffersIn(feed.xml.body[2])) = 1

(***************************************************************************)
(* C24.  generate_feed called twice on the same records with the same      *)
(* owner filter, at two different times, returns the same document.        *)
(***************************************************************************)
Cex_C24 ==
  (feed # NoFeed /\ feed.op = "render_again") => feed.xml = feed.first

\* the two documents differ in generation-date and in nothing else
Aux_C24_Body ==
  (feed # NoFeed /\ feed.op = "render_again")
  => /\ [feed.xml EXCEPT !.date = ""] = [feed.first EXCEPT !.date = ""]
     /\ (~feed.xml.raised /\ ~feed.xml.empty) => feed.xml.date # feed.first.date

(***************************************************************************)
(* C25.  create_xml_feed returns without raising.  When rendering raises   *)
(* or no row passes the filter it returns False and the file at            *)
(* output_path is as it was, absent or unchanged; the file is touched only *)
(* once the whole document has been rendered, and after True it holds that *)
(* document.                                                               *)
(***************************************************************************)
\* the document of the create_xml_feed call that returned
CreatedXml == generate_feed(dataset.rows, outcome.filter, Now(1))

Aux_C25_Empty ==
  /\ outcome.op = "create"
  /\ CreatedXml.empty /\ ~CreatedXml.raised /\ Len(dataset.rows) > 0
  /\ outcome.old = NoFile /\ outfile = NoFile

(***************************************************************************)
(* The handlers of the bot, the file metadata and the bucket:              *)
(* handle_document, handle_file_update, handle_file_action and             *)
(* handle_feed_selection, which create, update and delete the records of   *)
(* FileManager and the feeds in S3 around their calls of                   *)
(* update_sheet_with_excel.  The application handles one update at a time  *)
(* (Application.builder() without concurrent_updates), so one handler runs *)
(* from its start to its return; each await and each worksheet request is  *)
(* a step and may raise.  outcome is what the handler that returned last   *)
(* told its user, kept for a cancellation, a deletion, a feed and a        *)
(* refused update and NoOutcome for the rest.  The file create_xml_feed    *)
(* leaves at output_path is read back at once by upload_file and is not    *)
(* kept here.                                                              *)
(***************************************************************************)
\* FileManager.add_file: a record with status new (the default of FileMetadata)
add_file(md, file_id) == [md EXCEPT ![file_id] = "new"]

\* FileManager.update_file_status: nothing when there is no record
update_file_status(md, file_id, status) ==
  IF md[file_id] # "none" THEN [md EXCEPT ![file_id] = status] ELSE md

\* FileManager.delete_file; ok is false when os.remove raises
delete_file(md, file_id, ok) ==
  IF md[file_id] # "none" /\ ok THEN [md EXCEPT ![file_id] = "none"] ELSE md

\* a check that lets every user through
Allowed_Anyone(user, file_id) == TRUE

\* str(user.id) != file_metadata.user_id and user.id not in ADMIN_IDS, negated
Allowed(user, file_id) == user = user_id(file_id) \/ user \in ADMIN_IDS

\* the object put under a key: the document generate_feed made of the records
Object(xml, records) ==
  [exists |-> TRUE, empty |-> xml.empty, offers |-> xml.offers,
   rows |-> [k \in 1..Len(records) |->
               <<RecordStr(records[k], "developer_telegram_id"),
                 RecordStr(records[k], "source_file_id"),
                 RecordStr(records[k], "internal_id")>>]]

\* S3AsyncClient.upload_file: put_object under object_name; when it raises "" is
\* returned and the bucket is as before
upload_file(st, content, object_name, ok) ==
  IF ok THEN [st EXCEPT ![object_name] = content] ELSE st

\* S3AsyncClient.delete_file: delete_object; False when it raises
s3_delete_file(st, object_name, ok) ==
  IF ok THEN [st EXCEPT ![object_name] = NoObject] ELSE st

\* what a handler told its user when it returned
Told(op, user, file_id, result) ==
  [op |-> op, user |-> user, file_id |-> file_id, result |-> result]

\* the handler goes on to h, the records become md
Hand(h, md) ==
  /\ handler' = h
  /\ metadata' = md
  /\ UNCHANGED <<sheet, call, prev, ncalls, nfail, dataset, outcome, feed, outfile, storage>>

\* the handler returns
Returned == [handler EXCEPT !.pc = "idle", !.file_id = "", !.user = ""]

At(pc) == [handler EXCEPT !.pc = pc]

\* the handler ends as h having told its user `told`; records md, bucket st
Leave(h, told, md, st) ==
  /\ handler' = h
  /\ outcome' = told
  /\ metadata' = md
  /\ storage' = st
  /\ UNCHANGED <<sheet, call, prev, ncalls, nfail, dataset, feed, outfile>>

\* the results of a handler that outcome keeps
Kept_Results ==
  {"deleted", "not found", "no rights", "not found, raised", "no rights, raised"}

\* the running handler returns with `result`
Ends(op, result, md, st) ==
  Leave(Returned,
        IF result \in Kept_Results THEN Told(op, handler.user, handler.file_id, result)
        ELSE NoOutcome, md, st)

\* the uploads the documents hold: one with a repeated id, one valid
HandlerUploads == {4, ScenarioUpload}

\* what get_sheet_client, a download or an upload may do
Results == {"ok", "none", "raise"}

\* the bot takes the next update when no handler runs
Idle == handler.pc = "idle" /\ handler.runs < MaxRuns

\* a handler has been started for the update
Started == [handler EXCEPT !.runs = @ + 1]

\* handle_file_action, action "update" (lines 489-514): with a record and the right
\* to update, the file to update is noted in the user_data of the user
UpdateButton ==
  /\ Idle
  /\ \E user \in Users, file_id \in Files :
       IF metadata[file_id] = "none"
       THEN Leave(Started, NoOutcome, metadata, storage)
       ELSE IF ~Allowed(user, file_id)
       THEN Leave(Started, NoOutcome, metadata, storage)
       ELSE Leave([Started EXCEPT !.updating[user] = file_id],
                  NoOutcome, metadata, storage)

\* handle_file_action, callbacks file_<F> (lines 476-487, the Cancel and No buttons)
\* and back_main (lines 460-466, the No button of handle_document): the details of
\* the file or the main menu are shown, nothing else is done
CancelButton ==
  /\ Idle
  /\ \E user \in Users :
       Leave(Started, Told("cancel", user, "", "shown"), metadata, storage)

\* handle_document, lines 700-764: a document arrives.  With updating_file_id set
\* it is handed to handle_file_update; else it is downloaded (an exception is
\* caught at line 824), a known file_id is offered for update, and a new one gets
\* its record
Document ==
  /\ Idle
  /\ \E user \in Users, ok \in BOOLEAN :
       IF handler.updating[user] # ""
       THEN Hand([Started EXCEPT !.pc = "upd_start", !.file_id = handler.updating[user],
                                 !.user = user, !.updating[user] = ""], metadata)
       ELSE \E file_id \in generate_file_id(user) :
              IF ~ok
              THEN Leave(Started, NoOutcome, metadata, storage)
              ELSE IF metadata[file_id] # "none"
              THEN Leave([Started EXCEPT !.updating[user] = file_id],
                         NoOutcome, metadata, storage)
              ELSE Hand([Started EXCEPT !.pc = "doc_reply", !.file_id = file_id, !.user = user],
                        add_file(metadata, file_id))

\* handle_document, lines 766-771: reply_text, then status processing
DocReply ==
  /\ handler.pc = "doc_reply"
  /\ \E ok \in BOOLEAN :
       IF ok THEN Hand(At("doc_sheet"), update_file_status(metadata, handler.file_id, "processing"))
       ELSE Ends("document", "error", metadata, storage)

\* handle_document, lines 773-779: get_sheet_client returns a worksheet, or None,
\* or raises (caught at line 824)
DocSheet ==
  /\ handler.pc = "doc_sheet"
  /\ \E res \in Results :
       CASE res = "ok" -> Hand(At("doc_call"), metadata)
         [] res = "none" -> Ends("document", "error",
                                 update_file_status(metadata, handler.file_id, "error"), storage)
         [] OTHER -> Ends("document", "error", metadata, storage)

\* lines 782-787, 883-888 and 578: the handler calls update_sheet_with_excel with
\* the document, or with excel_path = None to delete, each time with str(user.id)
\* of the user it serves
HandlerCall ==
  /\ handler.pc \in {"doc_call", "upd_call", "del_call"}
  /\ \E excel \in (IF handler.pc = "del_call" THEN {0} ELSE HandlerUploads) :
       Begin(1, <<handler.user, handler.file_id>>, excel)

\* the call has returned to the handler
Back(h, told, md) ==
  /\ call[1].pc = "done"
  /\ prev' = call[1]
  /\ call' = [call EXCEPT ![1] = IdleCall]
  /\ handler' = h
  /\ outcome' = told
  /\ metadata' = md
  /\ UNCHANGED <<sheet, ncalls, nfail, dataset, feed, outfile, storage>>

\* handle_document, lines 789-794: messages make the status error
DocAfter ==
  /\ handler.pc = "doc_call"
  /\ LET told == NoOutcome IN
     IF call[1].raised THEN Back(Returned, told, metadata)
     ELSE IF call[1].result.errors # <<>>
     THEN Back(Returned, told, update_file_status(metadata, handler.file_id, "error"))
     ELSE Back(At("doc_feed"), outcome, metadata)

\* handle_document, lines 797-809: the rows of the file are read back ([] when a
\* request raises), generate_feed makes the document, upload_file puts it under
\* feed_<file_id>.xml, and the status becomes processed; an exception or no URL
\* makes it error (line 819)
DocFeed ==
  /\ handler.pc = "doc_feed"
  /\ \E read \in BOOLEAN, up \in Results :
       LET records == IF read THEN get_developer_data(sheet, handler.user, handler.file_id)
                      ELSE <<>>
           xml_content == generate_feed(records, "", Now(ncalls + 1))
       IN IF up = "ok"
          THEN /\ handler' = At("doc_told")
               /\ metadata' = update_file_status(metadata, handler.file_id, "processed")
               /\ storage' = upload_file(storage, Object(xml_content, records),
                                         DocumentKey(handler.file_id), TRUE)
               /\ UNCHANGED <<sheet, call, prev, ncalls, nfail, dataset, outcome, feed, outfile>>
          ELSE Ends("document", "error",
                    update_file_status(metadata, handler.file_id, "error"), storage)

\* handle_document, lines 811-823: the reply_text that tells the link; when it
\* raises the except clause of line 817 makes the status error
DocTold ==
  /\ handler.pc = "doc_told"
  /\ \E ok \in BOOLEAN :
       IF ok THEN Ends("document", "processed", metadata, storage)
       ELSE Ends("document", "error",
                 update_file_status(metadata, handler.file_id, "error"), storage)

\* the finally clause of handle_file_update (lines 935-938) evaluates
\* os.path.exists(file_path): file_path is a local that line 861 assigns, and
\* reading it before that raises UnboundLocalError in place of the return
Finally(assigned, result) == IF assigned THEN result ELSE result \o ", raised"

\* handle_file_update, lines 839-869.  Another kind of document is turned away
\* before the try.  Without a record, or without the right to update, the message
\* is sent and the function returns from inside the try, through the finally
\* clause, before line 861.  Else download and reply_text, then status
\* processing; an exception is caught at line 929 and makes the status error
UpdStart ==
  /\ handler.pc = "upd_start"
  /\ \E res \in {"ok", "mime", "raise"} :
       IF res = "mime" THEN Ends("update", "send excel", metadata, storage)
       ELSE IF metadata[handler.file_id] = "none"
       THEN Ends("update", Finally(FALSE, "not found"), metadata, storage)
       ELSE IF ~Allowed(handler.user, handler.file_id)
       THEN Ends("update", Finally(FALSE, "no rights"), metadata, storage)
       ELSE IF res = "ok"
       THEN Hand(At("upd_sheet"), update_file_status(metadata, handler.file_id, "processing"))
       ELSE Ends("update", "error",
                 update_file_status(metadata, handler.file_id, "error"), storage)

\* handle_file_update, lines 871-880: get_sheet_client and reply_text
UpdSheet ==
  /\ handler.pc = "upd_sheet"
  /\ \E ok \in BOOLEAN :
       IF ok THEN Hand(At("upd_call"), metadata)
       ELSE Ends("update", "error",
                 update_file_status(metadata, handler.file_id, "error"), storage)

\* handle_file_update, lines 890-898: errors make the status error, else processed
UpdAfter ==
  /\ handler.pc = "upd_call"
  /\ IF call[1].raised \/ call[1].result.errors # <<>>
     THEN Back(Returned, NoOutcome,
               update_file_status(metadata, handler.file_id, "error"))
     ELSE Back(At("upd_feed"), outcome, update_file_status(metadata, handler.file_id, "processed"))

\* handle_file_update, lines 900-927: replies, the rows of the file under
\* str(user.id) are read back, create_xml_feed, and upload_file under
\* feeds/feed_<file_id>.xml; an exception (reply_text, the S3 client) is caught at
\* line 929 and makes the status error
UpdFeed ==
  /\ handler.pc = "upd_feed"
  /\ \E res \in Results, read \in BOOLEAN :
       LET records == IF read THEN get_developer_data(sheet, handler.user, handler.file_id)
                      ELSE <<>>
           made == create_xml_feed(records, handler.user, Now(ncalls + 1), NoFile, "ok")
       IN CASE res = "raise" ->
                 Ends("update", "error",
                      update_file_status(metadata, handler.file_id, "error"), storage)
            [] res = "none" -> Ends("update", "no feed", metadata, storage)
            [] OTHER ->
                 IF ~made.ret THEN Ends("update", "no feed", metadata, storage)
                 ELSE Ends("update", "updated", metadata,
                           upload_file(storage, Object(made.file.xml, records),
                                       FeedKey(handler.file_id), TRUE))

\* handle_feed_selection, action "file" (lines 239-305): with a record and the right
\* to it, the rows of the owner of the file are read ([] when a request raises),
\* create_xml_feed makes the document and upload_file puts it under
\* feeds/feed_<file_id>.xml; with no worksheet, no rows, no document or no URL a
\* message is all there is
handle_feed_selection ==
  /\ Idle
  /\ \E user \in Users, file_id \in Files, res \in Results, read \in BOOLEAN :
       LET records == IF read THEN get_developer_data(sheet, user_id(file_id), "") ELSE <<>>
           made == create_xml_feed(records, user_id(file_id), Now(ncalls + 1), NoFile, "ok")
       IN IF \/ metadata[file_id] = "none"
             \/ ~Allowed(user, file_id)
             \/ res # "ok"
             \/ records = <<>>
             \/ ~made.ret
          THEN Leave(Started, NoOutcome, metadata, storage)
          ELSE Leave(Started, Told("feed", user, file_id, "made"), metadata,
                     upload_file(storage, Object(made.file.xml, records),
                                 FeedKey(file_id), TRUE))

\* handle_file_action, confirm_delete, lines 546-578: with a record and the right to
\* delete, get_sheet_client; with a worksheet the rows are deleted first; an
\* exception is caught at line 602
DelStart ==
  /\ Idle
  /\ \E user \in Users, file_id \in Files, res \in Results :
       IF metadata[file_id] = "none"
       THEN Leave(Started, NoOutcome, metadata, storage)
       ELSE IF ~Allowed(user, file_id)
       THEN Leave(Started, NoOutcome, metadata, storage)
       ELSE CASE res = "ok" ->
                   Hand([Started EXCEPT !.pc = "del_call", !.file_id = file_id, !.user = user],
                        metadata)
              [] res = "none" ->
                   Hand([Started EXCEPT !.pc = "del_s3", !.file_id = file_id, !.user = user],
                        metadata)
              [] OTHER -> Leave(Started, NoOutcome, metadata, storage)

\* line 578: what the deletion-only call returns is not looked at
DelAfter ==
  /\ handler.pc = "del_call"
  /\ IF call[1].raised
     THEN Back(Returned, NoOutcome, metadata)
     ELSE Back(At("del_s3"), outcome, metadata)

\* lines 580-600: the feed under feeds/feed_<file_id>.xml is deleted from S3 (what
\* delete_file returns is not looked at), then file_manager.delete_file and the
\* message that all is deleted, or that there were problems
DelS3 ==
  /\ handler.pc = "del_s3"
  /\ \E ok \in BOOLEAN, s3 \in BOOLEAN, removed \in BOOLEAN :
       IF ~ok THEN Ends("delete", "error", metadata, storage)
       ELSE Ends("delete", IF metadata[handler.file_id] # "none" /\ removed
                           THEN "deleted" ELSE "problems",
                 delete_file(metadata, handler.file_id, removed),
                 s3_delete_file(storage, FeedKey(handler.file_id), s3))

\* FileManager.cleanup_old_files: delete_file for the records not updated for
\* `days` days, here any of the records
cleanup_old_files ==
  /\ Idle
  /\ \E old \in SUBSET {f \in Files : metadata[f] # "none"} :
       /\ old # {}
       /\ Leave(Started, NoOutcome,
                [f \in Files |-> IF f \in old THEN "none" ELSE metadata[f]], storage)

\* the steps of update_sheet_with_excel inside a handler
HandlerStep ==
  \/ Prepare(1)
  \/ HdrRead(1)
  \/ HdrClear(1)
  \/ HdrWrite(1)
  \/ ReadAll(1)
  \/ DelBatch(1)
  \/ DelSingle(1)
  \/ AppendBatch(1)
  \/ DelHdr(1)
  \/ DelRead(1)

NextMeta ==
  \/ UpdateButton
  \/ CancelButton
  \/ Document
  \/ DocReply
  \/ DocSheet
  \/ HandlerCall
  \/ DocAfter
  \/ DocFeed
  \/ DocTold
  \/ UpdStart
  \/ UpdSheet
  \/ UpdAfter
  \/ UpdFeed
  \/ handle_feed_selection
  \/ DelStart
  \/ DelAfter
  \/ DelS3
  \/ cleanup_old_files
  \/ HandlerStep

\* the worksheets the bot may find: those of InitSheets, the rows of owner 8 under
\* the file id that generate_file_id gives owner 8.  One request of the worksheet
\* may raise in a behaviour (nfail starts one below MaxFail); the awaits of the
\* handlers may raise without bound
MetaSheets ==
  {[k \in 1..Len(ws) |->
      IF Len(ws[k]) > 1 /\ ws[k][1] = "8" THEN [ws[k] EXCEPT ![2] = "f3"] ELSE ws[k]] :
     ws \in InitSheets}

InitMeta ==
  /\ sheet \in MetaSheets
  /\ call = [p \in Procs |-> IdleCall]
  /\ prev = IdleCall
  /\ ncalls = 0
  /\ nfail = MaxFail - 1
  /\ dataset = NoDataset
  /\ outcome = NoOutcome
  /\ feed = NoFeed
  /\ outfile = NoFile
  /\ metadata = NoMetadata
  /\ handler = IdleHandler
  /\ storage = NoStorage

SpecMeta == InitMeta /\ [][NextMeta]_vars

Statuses == {"new", "processing", "processed", "error"}

\* the status changes of the lifecycle: a record is made with status new; new to
\* processing, processing to processed or error, and back to processing on update
Lifecycle ==
  {<<"none", "new">>, <<"new", "processing">>, <<"processing", "processed">>,
   <<"processing", "error">>, <<"processed", "processing">>, <<"error", "processing">>}

\* a step that ends a record is the last of a deletion or the retention sweep
Deletes(f) == metadata[f] # "none" /\ metadata'[f] = "none"

(***************************************************************************)
(* C26.  A record is made with status new; every later change of its       *)
(* status by the intake handlers is new to processing, processing to       *)
(* processed or error, or processed or error to processing; the status is  *)
(* always one of new, processing, processed, error; and a record ends only *)
(* in delete_file, called by the deletion handler or by cleanup_old_files. *)
(***************************************************************************)
Cex_C26 ==
  /\ [](\A f \in Files : metadata[f] \in Statuses \cup {"none"})
  /\ [][\A f \in Files :
          /\ (metadata'[f] # metadata[f] /\ ~Deletes(f))
               => <<metadata[f], metadata'[f]>> \in Lifecycle
          /\ Deletes(f) => handler.pc \in {"del_s3", "idle"}]_vars

\* the same with the two changes handle_file_update makes in its except clause
\* added: from new or processed straight to error
Aux_C26_Except ==
  /\ [](\A f \in Files : metadata[f] \in Statuses \cup {"none"})
  /\ [][\A f \in Files :
          /\ (metadata'[f] # metadata[f] /\ ~Deletes(f))
               => <<metadata[f], metadata'[f]>>
                    \in Lifecycle \cup {<<"new", "error">>, <<"processed", "error">>}
          /\ Deletes(f) => handler.pc \in {"del_s3", "idle"}]_vars

\* the changes of handle_document up to the upload of the feed follow the
\* lifecycle; the reply after it may take processed to error (line 819)
Aux_C26_Document ==
  [][\A f \in Files :
       (metadata'[f] # metadata[f] /\ handler.pc \in {"idle", "doc_reply", "doc_sheet", "doc_call", "doc_feed"}
          /\ ~Deletes(f))
       => <<metadata[f], metadata'[f]>> \in Lifecycle]_vars

(***************************************************************************)
(* C27.  Header sync, when its requests do not raise: on a worksheet with  *)
(* no header row it writes the four service columns followed by the        *)
(* columns of the upload and keeps the rows there are; on a header that    *)
(* lacks a service column it clears the worksheet and writes the service   *)
(* columns followed by the other columns the header had; a header with the *)
(* four service columns and the rows under it are left as they are.        *)
(***************************************************************************)
\* _get_or_create_headers of the call has returned and nothing has followed yet
HeaderSynced(c) == c.excel # 0 /\ c.pc = "read_all"

Aux_C27_NoHeader == HeaderSynced(call[1]) /\ call[1].pre = <<>> /\ Len(sheet) = 1

Aux_C27_Unchanged ==
  HeaderSynced(call[1]) /\ FoundServiceHeader(call[1]) /\ Len(sheet) > 1 /\ sheet = call[1].pre

(***************************************************************************)
(* _delete_rows_batch on its own: called with any set of row indices of    *)
(* the worksheet.                                                          *)
(***************************************************************************)
\* self._delete_rows_batch(worksheet, rows_to_delete); an empty set returns at once
StartDelete(p) ==
  /\ call[p].pc = "idle"
  /\ ncalls < MaxCalls
  /\ \E rows_to_delete \in SUBSET (1..Len(sheet)) :
       Set(p, IF rows_to_delete = {}
              THEN [IdleCall EXCEPT !.pc = "done", !.now = Now(ncalls + 1), !.pre = sheet]
              ELSE [IdleCall EXCEPT !.pc = "del_batch", !.now = Now(ncalls + 1), !.pre = sheet,
                                    !.sorted_rows = SortedDesc(rows_to_delete), !.i = 0])
  /\ ncalls' = ncalls + 1
  /\ UNCHANGED <<sheet, prev, nfail>>

NextDel ==
  \/ StartDelete(1)
  \/ DelBatch(1)
  \/ DelSingle(1)
  \/ Finish(1)

SpecDel == Init /\ [][NextDel]_vars

\* the worksheet without the rows at the indices T
Without(ws, T) ==
  LET left == SelectSeq([k \in 1..Len(ws) |-> k], LAMBDA k : k \notin T)
  IN [k \in 1..Len(left) |-> ws[left[k]]]

\* the set the call was made with
Given(c) == SeqToSet(c.sorted_rows)

(***************************************************************************)
(* C28.  _delete_rows_batch with a set S of row indices removes exactly    *)
(* the rows that were at these indices when it was called and leaves the   *)
(* other rows as they were and in their order, whether the batch requests  *)
(* succeed or a batch request fails and its rows are deleted one by one;   *)
(* the indices are taken in strictly descending order and no batch request *)
(* has more than BATCH_SIZE rows.                                          *)
(***************************************************************************)
Thm_C28 ==
  \A p \in Procs :
    LET c == call[p] IN
    c.pc \in {"del_batch", "del_single", "done"}
    => /\ \A k \in 1..(Len(c.sorted_rows) - 1) : c.sorted_rows[k] > c.sorted_rows[k + 1]
       /\ c.pc # "done" => Len(Batch(c)) \in 1..BATCH_SIZE
       /\ \E T \in SUBSET Given(c) : Cardinality(T) = c.removed /\ sheet = Without(c.pre, T)
       /\ (c.pc = "done" /\ ~Failed(c, "delete_rows")) => sheet = Without(c.pre, Given(c))

\* more rows than one batch holds, not adjacent, a batch request failed and its
\* rows were deleted one by one
Wit_C28 ==
  LET c == call[1] IN
  /\ c.pc = "done"
  /\ Len(c.sorted_rows) > BATCH_SIZE
  /\ Failed(c, "batch_update") /\ Did(c, "batch_update") /\ Did(c, "delete_rows")
  /\ ~Failed(c, "delete_rows")
  /\ \E k \in 2..Len(c.pre) : k \notin Given(c) /\ k + 1 \in Given(c) /\ k - 1 \in Given(c)
  /\ sheet = Without(c.pre, Given(c))

(***************************************************************************)
(* C29.  In one reconcile no row is appended before the last delete        *)
(* request of the call, no row that was there is changed, the rows of the  *)
(* upload are appended in their order in batches of at most BATCH_SIZE     *)
(* rows, and a reconcile that succeeds returns the number of rows of the   *)
(* upload and no error.                                                    *)
(***************************************************************************)
\* a is b with some elements left out
RECURSIVE IsSubseq(_, _)
IsSubseq(a, b) ==
  IF a = <<>> THEN TRUE
  ELSE IF b = <<>> THEN FALSE
  ELSE IF Head(a) = Head(b) THEN IsSubseq(Tail(a), Tail(b))
  ELSE IsSubseq(a, Tail(b))

\* the append_rows requests of the call that did not raise
Batches(c) == Cardinality({k \in 1..Len(c.ops) : c.ops[k] = <<"append_rows", "ok">>})

Thm_C29 ==
  \A p \in Procs :
    LET c == call[p] IN
    (c.pc # "idle" /\ c.excel # 0)
    => /\ \A a, b \in 1..Len(c.ops) :
            (a < b /\ c.ops[a][1] = "append_rows")
            => c.ops[b][1] \notin {"batch_update", "delete_rows", "clear"}
       /\ IsSubseq(Kept(c), DataRows(c.pre))
       /\ c.total_rows <= BATCH_SIZE * Batches(c)
       /\ \A k \in 1..c.total_rows :
            ListingOf(c.header, Appended(c)[k]) = Frame(c)[k]["internal_id"]
       /\ Succeeded(c)
            => /\ c.result.rows = Len(Uploads[c.excel].rows)
               /\ Len(Appended(c)) = Len(Uploads[c.excel].rows)

\* a reconcile deleted rows in two ways and then appended three rows in two batches
Wit_C29 ==
  LET c == call[1] IN
  /\ Succeeded(c) /\ c.excel # 0
  /\ c.removed > 0
  /\ Batches(c) > 1
  /\ c.result.rows = 3

(***************************************************************************)
(* C30.  A row too short to hold the owner or the source file is not       *)
(* selected for deletion, does not make a reconcile or a deletion-only     *)
(* call fail, and stays in the worksheet as it is, in a call that finds a  *)
(* header with the four service columns.                                   *)
(***************************************************************************)
\* the row has no cell under developer_telegram_id or none under source_file_id
TooShort(header, row) ==
  Len(row) < Max(Index(header, "developer_telegram_id"), Index(header, "source_file_id"))

ShortRows(header, rows) == SelectSeq(rows, LAMBDA row : TooShort(header, row))

\* the upload of the call is one the validator and the normalizer let through
Accepted(c) ==
  \/ c.excel = 0
  \/ /\ ~Validated[c.excel].raised /\ Validated[c.excel].ok
     /\ ~NormalizeRaises(Validated[c.excel].df)

HoldsCell(c, k, col) ==
  /\ col \in SeqToSet(c.header)
  /\ Appended(c)[k][Index(c.header, col)] = Frame(c)[k][col]

\* the columns of the upload that the header the call works with does not have
LostColumns(c) == SeqToSet(Uploads[c.excel].cols) \ SeqToSet(c.header)

Cex_C31 ==
  \A p \in Procs :
    LET c == call[p] IN
    (Succeeded(c) /\ c.excel # 0)
    => \A k \in 1..Len(Appended(c)) :
         \A col \in SeqToSet(Uploads[c.excel].cols) : HoldsCell(c, k, col)

\* the columns that the header has are written with the canonical value
Aux_C31_HeaderColumns ==
  \A p \in Procs :
    LET c == call[p] IN
    (Succeeded(c) /\ c.excel # 0)
    => \A k \in 1..Len(Appended(c)) :
         \A col \in SeqToSet(Uploads[c.excel].cols) \ LostColumns(c) : HoldsCell(c, k, col)

\* a column is lost only to a header that was there before the call
Aux_C31_NewHeader ==
  \A p \in Procs :
    LET c == call[p] IN
    (Succeeded(c) /\ c.excel # 0 /\ LostColumns(c) # {}) => Header(c.pre) # <<>>

\* a reconcile with a rooms column succeeded on a header without one and wrote rows
Aux_C31_Lost ==
  \E p \in Procs :
    LET c == call[p] IN
    /\ Succeeded(c) /\ c.excel # 0 /\ FoundServiceHeader(c)
    /\ "rooms" \in LostColumns(c)
    /\ Len(Appended(c)) > 0

(***************************************************************************)
(* C32.  Whatever documents were uploaded and files updated by owners and  *)
(* administrators, every row of the worksheet whose source_file_id is a    *)
(* file with a record has as developer_telegram_id the user_id of that     *)
(* record: an administrator who updates the file of another user writes no *)
(* row under the administrator's id.                                       *)
(***************************************************************************)
\* the data rows of the worksheet that carry file_id
FileRows(ws, file_id) == {k \in 2..Len(ws) : FileOf(Header(ws), ws[k]) = file_id}

Cex_C32 ==
  handler.pc = "idle"
  => \A f \in Files :
       metadata[f] # "none"
       => \A k \in FileRows(sheet, f) : OwnerOf(Header(sheet), sheet[k]) = user_id(f)

\* the rows of a file are under its owner or under an administrator
Aux_C32_Admin ==
  \A f \in Files :
    \A k \in FileRows(sheet, f) :
      OwnerOf(Header(sheet), sheet[k]) \in {user_id(f)} \cup ADMIN_IDS

\* an administrator's update has written rows under the administrator's id
Aux_C32_Reached ==
  /\ handler.pc = "idle" /\ metadata["f1"] = "processed"
  /\ \E k \in FileRows(sheet, "f1") : OwnerOf(Header(sheet), sheet[k]) = "9"
  /\ \E k \in FileRows(sheet, "f1") : OwnerOf(Header(sheet), sheet[k]) = "7"

(***************************************************************************)
(* C33.  After a confirmed deletion of a file that tells its user that all *)
(* is deleted, asked for by the owner of the file or by an administrator,  *)
(* no row with the source_file_id of the file is left in the worksheet;    *)
(* the record is not removed while rows of the file are in the worksheet.  *)
(***************************************************************************)
\* the deletion handler has just told that the file and its data are deleted
Deleted(f) ==
  /\ handler.pc = "idle"
  /\ outcome # NoOutcome
  /\ outcome = Told("delete", outcome.user, f, "deleted")

Cex_C33 ==
  \A f \in Files :
    (Deleted(f)) => FileRows(sheet, f) = {}

\* a deletion whose deletion-only call ran and returned no error leaves no row of
\* the file under the id of the user who asked for it
Aux_C33_Own ==
  \A f \in Files :
    (/\ Deleted(f)
     /\ prev.excel = 0 /\ prev.pc = "done" /\ prev.file_id = f
     /\ prev.developer_id = outcome.user /\ Succeeded(prev) /\ Clean(prev))
    => \A k \in FileRows(sheet, f) : OwnerOf(Header(sheet), sheet[k]) # outcome.user

\* an administrator's deletion, the deletion-only call without error, rows left
Aux_C33_Reached ==
  /\ Deleted("f1") /\ outcome.user = "9"
  /\ prev.excel = 0 /\ Succeeded(prev) /\ Clean(prev) /\ prev.file_id = "f1"
  /\ FileRows(sheet, "f1") # {}

(***************************************************************************)
(* C34.  After a confirmed deletion of a file that tells its user that all *)
(* is deleted, no feed of the file is left in the bucket: every key under  *)
(* which the handlers upload the feed of a file (first upload, update,     *)
(* feed selection) is the key the deletion removes.                        *)
(***************************************************************************)
\* the keys under which the bucket holds a feed of the file
FeedsOf(f) == {key \in {DocumentKey(f), FeedKey(f)} : storage[key] # NoObject}

Cex_C34 == \A f \in Files : Deleted(f) => FeedsOf(f) = {}

\* the deletion touches the object under feeds/feed_<file_id>.xml and no other
Aux_C34_Key ==
  [][\A f \in Files :
       (handler.pc = "del_s3" /\ handler.file_id = f)
       => \A key \in Keys \ {FeedKey(f)} : storage'[key] = storage[key]]_vars

\* the feed of the first upload is left after the deletion, that of the update is not
Aux_C34_Reached ==
  /\ Deleted("f1")
  /\ FeedsOf("f1") = {DocumentKey("f1")}

(***************************************************************************)
(* C35.  Only the owner of a file or an administrator changes it: whatever *)
(* callbacks and documents a user sends who is neither the user_id of the  *)
(* record of the file nor in ADMIN_IDS, no row of the file is deleted or   *)
(* replaced, its feed is neither made anew nor removed, and its record is  *)
(* neither changed nor deleted.  As stated this fails on a worksheet whose *)
(* header lacks a service column, which the header sync of any upload      *)
(* clears with all its rows (Cex_C35); it holds when the worksheet is      *)
(* empty or has the four service columns (Thm_C35).                        *)
(***************************************************************************)
\* the step is one of a handler that serves user u
ServedBy(u) ==
  \/ handler.pc # "idle" /\ handler.user = u
  \/ handler.pc = "idle" /\ handler'.pc # "idle" /\ handler'.user = u
  \/ /\ handler.pc = "idle" /\ handler'.pc = "idle" /\ handler'.runs # handler.runs
     /\ outcome' # NoOutcome /\ outcome'.user = u

\* the file has a record and u is neither its owner nor an administrator
Stranger(u, f) == metadata[f] # "none" /\ u # user_id(f) /\ u \notin ADMIN_IDS

\* the rows of the file, in their order
FileSeq(ws, f) == SelectSeq(DataRows(ws), LAMBDA row : FileOf(Header(ws), row) = f)

\* the step leaves the rows, the feeds and the record of the file as they are
Untouched(f) ==
  /\ FileSeq(sheet', f) = FileSeq(sheet, f)
  /\ storage'[DocumentKey(f)] = storage[DocumentKey(f)]
  /\ storage'[FeedKey(f)] = storage[FeedKey(f)]
  /\ metadata'[f] = metadata[f]

\* no user is asked to send a replacement for a file of another user
ArmedOwn ==
  \A u \in Users, f \in Files :
    handler.updating[u] = f => (u = user_id(f) \/ u \in ADMIN_IDS)

Aux_C35_Cleared ==
  /\ handler.pc = "doc_call" /\ handler.user = "8"
  /\ metadata["f1"] # "none"
  /\ FileSeq(call[1].pre, "f1") # <<>>
  /\ sheet = <<>>

(***************************************************************************)
(* C36.  Cancelling disarms an update: when a user who has been asked to   *)
(* send a replacement for a file (updating_file_id is set) presses Cancel  *)
(* or No, the next document of that user is taken as a new upload and is   *)
(* not handed to handle_file_update.                                       *)
(***************************************************************************)
\* the last update served was a Cancel or No of user u, who is still armed
Cancelled(u) ==
  /\ handler.pc = "idle"
  /\ outcome # NoOutcome /\ outcome.op = "cancel" /\ outcome.user = u
  /\ handler.updating[u] # ""

Cex_C36 ==
  [][\A u \in Users :
       (Cancelled(u) /\ handler'.pc # "idle" /\ handler'.user = u)
       => handler'.pc # "upd_start"]_vars

\* updating_file_id of a user is removed by the document of that user that is
\* handed to handle_file_update, and by nothing else
Aux_C36_Removed ==
  [][\A u \in Users :
       (handler.updating[u] # "" /\ handler'.updating[u] = "")
       => (handler.pc = "idle" /\ handler'.pc = "upd_start" /\ handler'.user = u
           /\ handler'.file_id = handler.updating[u])]_vars

\* after the Cancel of user 7 the next document of user 7 updates file f1
Aux_C36_Reached ==
  /\ handler.pc = "upd_start" /\ handler.user = "7" /\ handler.file_id = "f1"
  /\ outcome # NoOutcome /\ outcome.op = "cancel" /\ outcome.user = "7"

(***************************************************************************)
(* C37.  Every feed of a file that a handler publishes (first upload, file *)
(* update, feed selection for a file) is made of the rows of the worksheet *)
(* whose source_file_id is the id of the file and whose owner is the owner *)
(* of the file: rows of the same owner from other files are not in it.     *)
(***************************************************************************)
\* the rows of the object under the key are rows of file f under its owner
OnlyOf(key, f) ==
  storage[key] # NoObject
  => \A k \in 1..Len(storage[key].rows) :
       /\ storage[key].rows[k][1] = user_id(f)
       /\ storage[key].rows[k][2] = f

Cex_C37 == \A f \in Files : OnlyOf(DocumentKey(f), f) /\ OnlyOf(FeedKey(f), f)

\* the feed of the first upload is made of rows of the file under its owner
Aux_C37_Document == \A f \in Files : OnlyOf(DocumentKey(f), f)

\* the feed that handle_file_update publishes is made of rows of the file under
\* the user who sent the document
Aux_C37_Update ==
  [][(handler.pc = "upd_feed" /\ storage' # storage)
     => LET made == storage'[FeedKey(handler.file_id)]
        IN /\ made # NoObject
           /\ \A k \in 1..Len(made.rows) :
                made.rows[k][1] = handler.user /\ made.rows[k][2] = handler.file_id]_vars

\* the feed selection for file f1 has published a feed with a row of file f2
Aux_C37_Reached ==
  /\ handler.pc = "idle"
  /\ outcome = Told("feed", "7", "f1", "made")
  /\ \E k \in 1..Len(storage[FeedKey("f1")].rows) :
       storage[FeedKey("f1")].rows[k][1] = "7" /\ storage[FeedKey("f1")].rows[k][2] = "f2"

(***************************************************************************)
(* C38.  No empty document is published: on every path upload_file is      *)
(* called for a feed with a complete document that is not empty; when the  *)
(* rows read back for the feed are none (an upload of no rows, or a read   *)
(* that failed and returned no records) nothing is uploaded and the file   *)
(* does not become processed.                                              *)
(***************************************************************************)
\* the object under the key is an empty document
EmptyObject(key) == storage[key] # NoObject /\ storage[key].empty

Cex_C38 == \A key \in Keys : ~EmptyObject(key)

\* handle_file_update and the feed selection publish no empty document
Aux_C38_Feeds == \A f \in Files : ~EmptyObject(FeedKey(f))

\* an empty document is published by handle_document only, for no records, and
\* the file becomes processed with it
Aux_C38_Document ==
  [][\A key \in Keys :
       (~EmptyObject(key) /\ EmptyObject(key)')
       => /\ handler.pc = "doc_feed" /\ key = DocumentKey(handler.file_id)
          /\ storage'[key].rows = <<>>
          /\ metadata'[handler.file_id] = "processed"]_vars

\* the first upload of f1 has ended as processed with an empty document as feed
Aux_C38_Reached ==
  /\ handler.pc = "idle"
  /\ metadata["f1"] = "processed"
  /\ EmptyObject(DocumentKey("f1"))

(***************************************************************************)
(* C39.  An upload with a record reaches a final status: when              *)
(* handle_document or handle_file_update ends, by its return or by its     *)
(* exception handler, a failed chat message included, the status of the    *)
(* record is processed or error, not new or processing.                    *)
(***************************************************************************)
\* the step ends handle_document or handle_file_update for a file with a record
EndsIntake(f) ==
  /\ handler.pc \in {"doc_reply", "doc_sheet", "doc_call", "doc_feed", "doc_told",
                     "upd_start", "upd_sheet", "upd_call", "upd_feed"}
  /\ handler.file_id = f
  /\ metadata[f] # "none"
  /\ handler'.pc = "idle"

Cex_C39 ==
  [][\A f \in Files : EndsIntake(f) => metadata'[f] \in {"processed", "error"}]_vars

\* handle_file_update, once past its checks, ends with processed or error
Aux_C39_Update ==
  [][\A f \in Files :
       (EndsIntake(f) /\ handler.pc \in {"upd_sheet", "upd_call", "upd_feed"})
       => metadata'[f] \in {"processed", "error"}]_vars

\* handle_document ends with processed or error once the update of the worksheet
\* has returned
Aux_C39_Document ==
  [][\A f \in Files :
       (EndsIntake(f) /\ (handler.pc \in {"doc_feed", "doc_told"}
                          \/ (handler.pc = "doc_call" /\ ~call[1].raised)))
       => metadata'[f] \in {"processed", "error"}]_vars

\* handle_document has ended for f1 and left its status at new
Aux_C39_New ==
  /\ handler.pc = "idle" /\ handler.runs = 1
  /\ metadata["f1"] = "new"

\* handle_document has ended for f1 and left its status at processing
Aux_C39_Processing ==
  /\ handler.pc = "idle" /\ handler.runs = 1
  /\ metadata["f1"] = "processing"

(***************************************************************************)
(* C40.  handle_file_update ends without raising where it turns a document *)
(* away: when the file to update has no record, or the user is neither its *)
(* owner nor an administrator, it sends the message and returns, and the   *)
(* worksheet, the bucket and the records are as before.                    *)
(***************************************************************************)
\* handle_file_update has turned the document away for want of a record or of the
\* right to update
TurnedAway ==
  /\ handler.pc = "idle"
  /\ outcome # NoOutcome /\ outcome.op = "update"
  /\ outcome.result \in {Finally(a, r) : a \in BOOLEAN, r \in {"not found", "no rights"}}

Cex_C40 == TurnedAway => outcome.result \in {"not found", "no rights"}

\* where the document is turned away the worksheet, the bucket and the records
\* are left as they are
Aux_C40_Unchanged ==
  [][(handler.pc = "upd_start" /\ TurnedAway')
     => (sheet' = sheet /\ storage' = storage /\ metadata' = metadata)]_vars

\* the document of user 7 for file f1, whose record is gone, has been turned away
\* and the handler has raised
Aux_C40_Reached ==
  /\ handler.pc = "idle"
  /\ outcome = Told("update", "7", "f1", Finally(FALSE, "not found"))
  /\ metadata["f1"] = "none"
====
